---- MODULE Spec2Model ----
(***************************************************************************)
(* Event-driven backtesting kernel: event bus, simulation driver,          *)
(* order-matching engine (SimulatedExecutionHandler) and portfolio ledger  *)
(* (Portfolio).                                                            *)
(*                                                                         *)
(* Money and prices are Python floats in the program.  They are modelled   *)
(* as exact rationals <<numerator, denominator>> (denominator > 0, lowest  *)
(* terms), so every identity checked here is the real-arithmetic identity. *)
(***************************************************************************)
EXTENDS Integers, Sequences, FiniteSets, TLC

(***************************************************************************)
(* Bounds of the model.                                                    *)
(***************************************************************************)
\* number of fills handed directly to the ledger in one run
MaxFills == 3
\* number of bars the bar source holds at most
MaxBars == 3
\* number of orders submitted to the engine in one run
MaxOrders == 2
\* number of bars one order is matched against, rule by rule
MaxMatchBars == 2
\* number of events put on an event bus that is exercised on its own
MaxPuts == 3

(***************************************************************************)
(* Exact rational arithmetic standing for float arithmetic.                *)
(***************************************************************************)
RECURSIVE GCD(_, _)
GCD(a, b) == IF b = 0 THEN a ELSE GCD(b, a % b)

Abs(x) == IF x < 0 THEN -x ELSE x

Min(a, b) == IF a <= b THEN a ELSE b

Max(a, b) == IF a >= b THEN a ELSE b

\* the rational n/d (d # 0) in lowest terms with a positive denominator
Rat(n, d) ==
    LET s == IF d < 0 THEN -1 ELSE 1
        g == GCD(Abs(n), Abs(d))
    IN <<(s * n) \div g, (s * d) \div g>>

R(n) == <<n, 1>>

RAdd(x, y) == Rat(x[1] * y[2] + y[1] * x[2], x[2] * y[2])

RSub(x, y) == Rat(x[1] * y[2] - y[1] * x[2], x[2] * y[2])

RMul(x, y) == Rat(x[1] * y[1], x[2] * y[2])

\* x / y for y # 0
RDiv(x, y) == Rat(x[1] * y[2], x[2] * y[1])

RLe(x, y) == x[1] * y[2] <= y[1] * x[2]

RLt(x, y) == x[1] * y[2] < y[1] * x[2]

RIsZero(x) == x[1] = 0

\* Python int() of a rational: truncation toward zero
IntOf(x) == IF x[1] >= 0 THEN x[1] \div x[2] ELSE -((-x[1]) \div x[2])

(***************************************************************************)
(* Configuration of one run.                                               *)
(***************************************************************************)
symbol_list == {"AAPL", "MSFT"}

\* symbol_list[0]: the symbol the strategy trades and the clock of the snapshots
first_symbol == "AAPL"

\* Portfolio(..., initial_capital): kept small so that sizing stays in range
initial_capital == R(20)

VARIABLES
    bus,                      \* EventBus._events, oldest event first
    latest_bars,              \* the bar get_latest_bars(symbol)[0] returns
    bar_count,                \* bars the data handler has handed out
    continue_backtest,        \* CSVDataHandler.continue_backtest
    pc,                       \* where the driver loop of _run_backtest stands
    current_market_event,     \* Backtester.current_market_event
    orders,                   \* SimulatedExecutionHandler.orders: id -> order
    order_id,                 \* SimulatedExecutionHandler.order_id
    slippage_bps,             \* SimulatedExecutionHandler.slippage_bps
    partial_fill_volume_pct,  \* SimulatedExecutionHandler.partial_fill_volume_pct
    current_positions,        \* Portfolio.current_positions: symbol -> signed shares
    current_holdings,         \* Portfolio.current_holdings: cash, commission, total
    open_positions_details,   \* Portfolio.open_positions_details: symbol -> lot
    closed_trades,            \* Portfolio.closed_trades
    all_positions,            \* Portfolio.all_positions
    all_holdings,             \* Portfolio.all_holdings
    last_fill,                \* the FillEvent most recently passed to update_fill
    applied,                  \* number of FillEvents passed to update_fill
    emitted,                  \* every FillEvent the engine has put on the bus
    canceled,                 \* canceled order id -> fills emitted before its cancel
    submitted,                \* order id -> the OrderEvent as execute_order stored it
    error_log,                \* the errors the driver has caught and logged
    enqueued,                 \* every event handed to EventBus.put, in call order
    get_results,              \* the outcome of every call of EventBus.get
    strategy_view,            \* what calculate_signals last found recorded
    registered_at,            \* order id -> bars handed out when it was stored
    origin                    \* signal types of the orders update_signal put

busVars == <<bus>>

dataVars == <<latest_bars, bar_count, continue_backtest>>

driverVars == <<pc, current_market_event>>

engineVars ==
    <<orders, order_id, emitted, canceled, submitted, registered_at>>

configVars == <<slippage_bps, partial_fill_volume_pct>>

ledgerVars == <<current_positions, current_holdings, open_positions_details,
                closed_trades, last_fill, applied>>

\* the snapshot series, and what the strategy found of them when it last ran
historyVars == <<all_positions, all_holdings, strategy_view>>

logVars == <<error_log>>

callVars == <<enqueued, get_results>>

signalVars == <<origin>>

vars == <<bus, latest_bars, bar_count, continue_backtest, pc,
          current_market_event, orders, order_id, slippage_bps,
          partial_fill_volume_pct, current_positions, current_holdings,
          open_positions_details, closed_trades, all_positions, all_holdings,
          last_fill, applied, emitted, canceled, submitted, error_log,
          enqueued, get_results, strategy_view, registered_at, origin>>

(***************************************************************************)
(* Events.                                                                 *)
(***************************************************************************)
\* an absent price (Python None) and an order no engine has numbered yet
None == -1

\* OrderEvent.__init__: -inf and +inf of the trailing extrema
NegInf == -1000

PosInf == 1000

NoEvent == [type |-> "NONE"]

NoFill == [type |-> "NONE"]

\* FillEvent.__init__: a missing commission becomes 0.0
FillEvent(timeindex, symbol, quantity, direction, fill_cost, commission, oid, partial_fill) ==
    [type |-> "FILL", timeindex |-> timeindex, symbol |-> symbol,
     quantity |-> quantity, direction |-> direction, fill_cost |-> fill_cost,
     commission |-> commission, order_id |-> oid,
     partial_fill |-> partial_fill]

OrderEvent(symbol, order_type, quantity, direction, limit_price, stop_price, trail_price, immediate_fill) ==
    [type |-> "ORDER", symbol |-> symbol, order_type |-> order_type,
     quantity |-> quantity, direction |-> direction,
     limit_price |-> limit_price, stop_price |-> stop_price,
     trail_price |-> trail_price, immediate_fill |-> immediate_fill,
     filled_quantity |-> 0, highest_price_seen |-> NegInf,
     lowest_price_seen |-> PosInf, order_id |-> None]

CancelOrderEvent(id) == [type |-> "CANCEL_ORDER", order_id |-> id]

MarketEvent(timeindex) == [type |-> "MARKET", timeindex |-> timeindex]

SignalEvent(symbol, datetime, signal_type, sizing_type, sizing_value, order_type, limit_price, stop_price, trail_price, immediate_fill) ==
    [type |-> "SIGNAL", symbol |-> symbol, datetime |-> datetime,
     signal_type |-> signal_type, sizing_type |-> sizing_type,
     sizing_value |-> sizing_value, order_type |-> order_type,
     limit_price |-> limit_price, stop_price |-> stop_price,
     trail_price |-> trail_price, immediate_fill |-> immediate_fill]

(***************************************************************************)
(* EventBus: a queue.Queue behind put, get and empty.                      *)
(***************************************************************************)
\* variant: an event of the type of the newest queued event is merged into it
EventBusPut_Coalescing(queue, event) ==
    IF queue # <<>> /\ queue[Len(queue)].type = event.type THEN queue
    ELSE Append(queue, event)

\* put(event): Queue.put on an unbounded queue
EventBusPut(queue, event) == Append(queue, event)

\* get(*args): the method takes no argument besides self, so a call with one
\* raises TypeError; without, it is Queue.get(), which waits for an item
\* while the queue is empty
EventBusGet(queue, args) ==
    IF args # <<>>
    THEN [outcome |-> "TypeError", event |-> NoEvent, queue |-> queue]
    ELSE IF queue = <<>>
    THEN [outcome |-> "Blocked", event |-> NoEvent, queue |-> queue]
    ELSE [outcome |-> "Event", event |-> Head(queue), queue |-> Tail(queue)]

\* empty(): Queue.empty()
EventBusEmpty(queue) == queue = <<>>

Bar(time, open, high, low, close, volume) ==
    [time |-> time, open |-> open, high |-> high, low |-> low,
     close |-> close, volume |-> volume]

NoBar == [time |-> None]

(***************************************************************************)
(* Portfolio ledger: update_fill.                                          *)
(***************************************************************************)
NoLot == [direction |-> "NONE"]

HasLot(lots, s) == lots[s].direction # "NONE"

FillSign(direction) ==
    IF direction = "BUY" THEN 1 ELSE IF direction = "SELL" THEN -1 ELSE 0

UpdatePositionsFromFill(positions, fill) ==
    [positions EXCEPT ![fill.symbol] = @ + FillSign(fill.direction) * fill.quantity]

\* variant: the commission is accumulated but not taken from cash
UpdateHoldingsFromFill_CashKeepsCommission(holdings, fill) ==
    [holdings EXCEPT
        !.cash = RSub(@, RMul(R(FillSign(fill.direction)), fill.fill_cost)),
        !.commission = RAdd(@, fill.commission)]

UpdateHoldingsFromFill(holdings, fill) ==
    [holdings EXCEPT
        !.cash = RSub(@, RAdd(RMul(R(FillSign(fill.direction)), fill.fill_cost),
                              fill.commission)),
        !.commission = RAdd(@, fill.commission)]

\* variant: the closed trade's pnl leaves the entry commission out
CreateClosedTrade_NoEntryCommission(symbol, entry_time, exit_time, entry_price, exit_price, quantity, direction, entry_commission, exit_commission) ==
    [symbol |-> symbol, entry_time |-> entry_time, exit_time |-> exit_time,
     entry_price |-> entry_price, exit_price |-> exit_price,
     quantity |-> quantity, direction |-> direction,
     pnl |-> IF direction = "LONG"
                THEN RSub(RMul(RSub(exit_price, entry_price), R(quantity)),
                          exit_commission)
                ELSE RSub(RMul(RSub(entry_price, exit_price), R(quantity)),
                          exit_commission),
     commission |-> RAdd(entry_commission, exit_commission),
     duration |-> exit_time - entry_time]

\* the nested helper _create_closed_trade
CreateClosedTrade(symbol, entry_time, exit_time, entry_price, exit_price, quantity, direction, entry_commission, exit_commission) ==
    [symbol |-> symbol, entry_time |-> entry_time, exit_time |-> exit_time,
     entry_price |-> entry_price, exit_price |-> exit_price,
     quantity |-> quantity, direction |-> direction,
     pnl |-> IF direction = "LONG"
                THEN RSub(RMul(RSub(exit_price, entry_price), R(quantity)),
                          RAdd(entry_commission, exit_commission))
                ELSE IF direction = "SHORT"
                THEN RSub(RMul(RSub(entry_price, exit_price), R(quantity)),
                          RAdd(entry_commission, exit_commission))
                ELSE R(0),
     commission |-> RAdd(entry_commission, exit_commission),
     duration |-> exit_time - entry_time]

\* Closing branch of _track_trades_from_fill: the fill is opposite to the lot
\* of direction lotDir; a remainder opens a lot of direction newDir.
\* A lot of quantity 0 makes the proportional commission divide by zero.
TrackClose(lots, closed, fill, fill_price, lotDir, newDir) ==
    LET s == fill.symbol
        existing_pos == lots[s]
    IN IF existing_pos.quantity = 0
       THEN [lots |-> lots, closed |-> closed, raised |-> TRUE]
       ELSE
       LET close_quantity == Min(fill.quantity, existing_pos.quantity)
           entry_commission_for_closed_portion ==
               RMul(RDiv(existing_pos.total_entry_commission,
                         R(existing_pos.quantity)), R(close_quantity))
           trade == CreateClosedTrade(s, existing_pos.entry_time, fill.timeindex,
                        existing_pos.entry_price, fill_price, close_quantity,
                        lotDir, entry_commission_for_closed_portion,
                        fill.commission)
           reduced == [existing_pos EXCEPT
                          !.quantity = @ - close_quantity,
                          !.total_entry_commission =
                              RSub(@, entry_commission_for_closed_portion)]
           afterClose == IF reduced.quantity <= 0 THEN NoLot ELSE reduced
           remaining_fill_quantity == fill.quantity - close_quantity
           afterOpen ==
               IF remaining_fill_quantity > 0
               THEN [entry_time |-> fill.timeindex,
                     entry_price |-> fill_price,
                     quantity |-> remaining_fill_quantity,
                     direction |-> newDir,
                     total_entry_commission |->
                         RSub(fill.commission,
                              RMul(RDiv(fill.commission, R(fill.quantity)),
                                   R(close_quantity)))]
               ELSE afterClose
       IN [lots |-> [lots EXCEPT ![s] = afterOpen],
           closed |-> Append(closed, trade),
           raised |-> FALSE]

\* variant: a fill added to a lot replaces the lot's entry price by its own
TrackOpen_LastPrice(lots, closed, fill, fill_price, newDir) ==
    LET s == fill.symbol
        existing_pos == lots[s]
    IN IF ~HasLot(lots, s)
       THEN [lots |-> [lots EXCEPT ![s] =
                         [entry_time |-> fill.timeindex,
                          entry_price |-> fill_price,
                          quantity |-> fill.quantity,
                          direction |-> newDir,
                          total_entry_commission |-> fill.commission]],
             closed |-> closed, raised |-> FALSE]
       ELSE [lots |-> [lots EXCEPT ![s] =
                 [existing_pos EXCEPT
                     !.entry_price = fill_price,
                     !.quantity = @ + fill.quantity,
                     !.total_entry_commission = RAdd(@, fill.commission)]],
             closed |-> closed, raised |-> FALSE]

\* Opening or adding branch of _track_trades_from_fill; adding a fill of
\* quantity 0 to a lot of quantity 0 divides by zero.
TrackOpen(lots, closed, fill, fill_price, newDir) ==
    LET s == fill.symbol
        existing_pos == lots[s]
    IN IF ~HasLot(lots, s)
       THEN [lots |-> [lots EXCEPT ![s] =
                         [entry_time |-> fill.timeindex,
                          entry_price |-> fill_price,
                          quantity |-> fill.quantity,
                          direction |-> newDir,
                          total_entry_commission |-> fill.commission]],
             closed |-> closed, raised |-> FALSE]
       ELSE
       LET total_quantity == existing_pos.quantity + fill.quantity
       IN IF total_quantity = 0
          THEN [lots |-> lots, closed |-> closed, raised |-> TRUE]
          ELSE [lots |-> [lots EXCEPT ![s] =
                    [existing_pos EXCEPT
                        !.entry_price =
                            RDiv(RAdd(RMul(@, R(existing_pos.quantity)),
                                      RMul(fill_price, R(fill.quantity))),
                                 R(total_quantity)),
                        !.quantity = total_quantity,
                        !.total_entry_commission = RAdd(@, fill.commission)]],
                closed |-> closed, raised |-> FALSE]

TrackTradesFromFill(lots, closed, fill) ==
    LET fill_price == IF fill.quantity # 0
                      THEN RDiv(fill.fill_cost, R(fill.quantity))
                      ELSE R(0)
        s == fill.symbol
    IN IF fill.direction = "BUY"
       THEN IF HasLot(lots, s) /\ lots[s].direction = "SHORT"
            THEN TrackClose(lots, closed, fill, fill_price, "SHORT", "LONG")
            ELSE TrackOpen(lots, closed, fill, fill_price, "LONG")
       ELSE IF fill.direction = "SELL"
       THEN IF HasLot(lots, s) /\ lots[s].direction = "LONG"
            THEN TrackClose(lots, closed, fill, fill_price, "LONG", "SHORT")
            ELSE TrackOpen(lots, closed, fill, fill_price, "SHORT")
       ELSE [lots |-> lots, closed |-> closed, raised |-> FALSE]

\* Portfolio.update_fill: positions, then holdings, then trade tracking; an
\* error raised by the tracking leaves the first two updates in place.
UpdateFill(fill) ==
    LET t == TrackTradesFromFill(open_positions_details, closed_trades, fill)
    IN /\ current_positions' = UpdatePositionsFromFill(current_positions, fill)
       /\ current_holdings' = UpdateHoldingsFromFill(current_holdings, fill)
       /\ open_positions_details' = t.lots
       /\ closed_trades' = t.closed
       /\ last_fill' = fill
       /\ applied' = applied + 1

(***************************************************************************)
(* SimulatedExecutionHandler.                                              *)
(***************************************************************************)
\* variant: the slippage is added to the price of a SELL as well
ApplySlippage_AlwaysAdded(price, direction) ==
    IF slippage_bps = 0 THEN price
    ELSE RMul(price, RAdd(R(1), Rat(slippage_bps, 10000)))

ApplySlippage(price, direction) ==
    IF slippage_bps = 0 THEN price
    ELSE IF direction = "BUY"
         THEN RMul(price, RAdd(R(1), Rat(slippage_bps, 10000)))
    ELSE IF direction = "SELL"
         THEN RMul(price, RSub(R(1), Rat(slippage_bps, 10000)))
    ELSE price

\* int(bar.volume * partial_fill_volume_pct), the percentage being a rational
MaxFillQuantity(bar) ==
    (bar.volume * partial_fill_volume_pct[1]) \div partial_fill_volume_pct[2]

\* variant: the fill ignores the liquidity cap
BuildFill_Uncapped(oid, order, bar, remaining_quantity, price) ==
    FillEvent(bar.time, order.symbol, remaining_quantity, order.direction,
              RMul(ApplySlippage(R(price), order.direction),
                   R(remaining_quantity)),
              R(0), oid, FALSE)

\* the lines every filling branch ends with: slippage, liquidity cap, FillEvent
BuildFill(oid, order, bar, remaining_quantity, price) ==
    LET fill_price == ApplySlippage(R(price), order.direction)
        fill_quantity == Min(remaining_quantity, MaxFillQuantity(bar))
        partial_fill == fill_quantity < remaining_quantity
        fill_cost == RMul(fill_price, R(fill_quantity))
    IN FillEvent(bar.time, order.symbol, fill_quantity, order.direction,
                 fill_cost, R(0), oid, partial_fill)

\* result of one matching rule: the fill (or none), the order as the rule left
\* it, and whether a comparison with an absent price raised TypeError
Matched(fill, order) == [fill |-> fill, order |-> order, raised |-> FALSE]

Raised(order) == [fill |-> NoFill, order |-> order, raised |-> TRUE]

FillMarketOrder(oid, order, bar, remaining_quantity) ==
    Matched(BuildFill(oid, order, bar, remaining_quantity, bar.open), order)

\* variant: a limit order always fills at its limit price
FillLimitOrder_AtLimit(oid, order, bar, remaining_quantity) ==
    IF \/ (order.direction = "BUY" /\ bar.low <= order.limit_price)
       \/ (order.direction = "SELL" /\ bar.high >= order.limit_price)
    THEN Matched(BuildFill(oid, order, bar, remaining_quantity,
                           order.limit_price), order)
    ELSE Matched(NoFill, order)

\* variant: a limit order whose condition is met fills at the bar's open
FillLimitOrder_AtOpen(oid, order, bar, remaining_quantity) ==
    IF \/ (order.direction = "BUY" /\ bar.low <= order.limit_price)
       \/ (order.direction = "SELL" /\ bar.high >= order.limit_price)
    THEN Matched(BuildFill(oid, order, bar, remaining_quantity, bar.open),
                 order)
    ELSE Matched(NoFill, order)

FillLimitOrder(oid, order, bar, remaining_quantity) ==
    IF order.direction = "BUY"
    THEN IF order.limit_price = None THEN Raised(order)
         ELSE IF bar.low <= order.limit_price
         THEN Matched(BuildFill(oid, order, bar, remaining_quantity,
                                Min(bar.open, order.limit_price)), order)
         ELSE Matched(NoFill, order)
    ELSE IF order.direction = "SELL"
    THEN IF order.limit_price = None THEN Raised(order)
         ELSE IF bar.open >= order.limit_price
         THEN Matched(BuildFill(oid, order, bar, remaining_quantity, bar.open),
                      order)
         ELSE IF bar.high >= order.limit_price
         THEN Matched(BuildFill(oid, order, bar, remaining_quantity,
                                order.limit_price), order)
         ELSE Matched(NoFill, order)
    ELSE Matched(NoFill, order)

\* variant: a stop touched inside the bar fills at the stop price
FillStopOrder_AtStop(oid, order, bar, remaining_quantity) ==
    IF order.direction = "BUY" /\ bar.high >= order.stop_price
    THEN Matched(BuildFill(oid, order, bar, remaining_quantity,
                           IF bar.open >= order.stop_price
                           THEN bar.open ELSE order.stop_price), order)
    ELSE IF order.direction = "SELL" /\ bar.low <= order.stop_price
    THEN Matched(BuildFill(oid, order, bar, remaining_quantity,
                           IF bar.open <= order.stop_price
                           THEN bar.open ELSE order.stop_price), order)
    ELSE Matched(NoFill, order)

FillStopOrder(oid, order, bar, remaining_quantity) ==
    IF order.direction = "BUY"
    THEN IF order.stop_price = None THEN Raised(order)
         ELSE IF bar.high >= order.stop_price
         THEN LET p1 == order.stop_price
                  p2 == IF bar.open >= order.stop_price THEN bar.open ELSE p1
                  p3 == IF bar.high >= order.stop_price
                           /\ bar.open < order.stop_price
                        THEN bar.high ELSE p2
              IN Matched(BuildFill(oid, order, bar, remaining_quantity, p3),
                         order)
         ELSE Matched(NoFill, order)
    ELSE IF order.direction = "SELL"
    THEN IF order.stop_price = None THEN Raised(order)
         ELSE IF bar.low <= order.stop_price
         THEN LET p1 == order.stop_price
                  p2 == IF bar.open <= order.stop_price THEN bar.open ELSE p1
                  p3 == IF bar.low <= order.stop_price
                           /\ bar.open > order.stop_price
                        THEN bar.low ELSE p2
              IN Matched(BuildFill(oid, order, bar, remaining_quantity, p3),
                         order)
         ELSE Matched(NoFill, order)
    ELSE Matched(NoFill, order)

\* variant: the stop condition is not looked at, the order acts as a limit order
FillStopLimitOrder_NoStop(oid, order, bar, remaining_quantity) ==
    FillLimitOrder(oid, order, bar, remaining_quantity)

FillStopLimitOrder(oid, order, bar, remaining_quantity) ==
    IF order.direction = "BUY"
    THEN IF order.stop_price = None THEN Raised(order)
         ELSE IF bar.high >= order.stop_price
         THEN IF order.limit_price = None THEN Raised(order)
              ELSE IF bar.low <= order.limit_price
              THEN Matched(BuildFill(oid, order, bar, remaining_quantity,
                                     Min(bar.open, order.limit_price)), order)
              ELSE Matched(NoFill, order)
         ELSE Matched(NoFill, order)
    ELSE IF order.direction = "SELL"
    THEN IF order.stop_price = None THEN Raised(order)
         ELSE IF bar.low <= order.stop_price
         THEN IF order.limit_price = None THEN Raised(order)
              ELSE IF bar.high >= order.limit_price
              THEN Matched(BuildFill(oid, order, bar, remaining_quantity,
                                     Max(bar.open, order.limit_price)), order)
              ELSE Matched(NoFill, order)
         ELSE Matched(NoFill, order)
    ELSE Matched(NoFill, order)

\* variant: the trigger trails the current bar's extreme only
FillTrailingStopOrder_BarOnly(oid, order, bar, remaining_quantity) ==
    IF order.direction = "BUY"
    THEN LET o == [order EXCEPT !.highest_price_seen = Max(@, bar.high)]
             trail_price == bar.high - o.trail_price
         IN IF bar.low <= trail_price
            THEN Matched(BuildFill(oid, o, bar, remaining_quantity,
                                   Min(bar.open, trail_price)), o)
            ELSE Matched(NoFill, o)
    ELSE LET o == [order EXCEPT !.lowest_price_seen = Min(@, bar.low)]
             trail_price == bar.low + o.trail_price
         IN IF bar.high >= trail_price
            THEN Matched(BuildFill(oid, o, bar, remaining_quantity,
                                   Max(bar.open, trail_price)), o)
            ELSE Matched(NoFill, o)

FillTrailingStopOrder(oid, order, bar, remaining_quantity) ==
    IF order.direction = "BUY"
    THEN LET o == [order EXCEPT !.highest_price_seen = Max(@, bar.high)]
         IN IF o.trail_price = None THEN Raised(o)
            ELSE LET trail_price == o.highest_price_seen - o.trail_price
                 IN IF bar.low <= trail_price
                    THEN Matched(BuildFill(oid, o, bar, remaining_quantity,
                                     IF bar.open <= trail_price
                                     THEN bar.open ELSE trail_price), o)
                    ELSE Matched(NoFill, o)
    ELSE IF order.direction = "SELL"
    THEN LET o == [order EXCEPT !.lowest_price_seen = Min(@, bar.low)]
         IN IF o.trail_price = None THEN Raised(o)
            ELSE LET trail_price == o.lowest_price_seen + o.trail_price
                 IN IF bar.high >= trail_price
                    THEN Matched(BuildFill(oid, o, bar, remaining_quantity,
                                     IF bar.open >= trail_price
                                     THEN bar.open ELSE trail_price), o)
                    ELSE Matched(NoFill, o)
    ELSE Matched(NoFill, order)

\* variant: the extrema of an order of any type follow the bars
CheckOrder_TracksAll(oid, order, bar, remaining_quantity) ==
    LET o == [order EXCEPT !.highest_price_seen = Max(@, bar.high),
                           !.lowest_price_seen = Min(@, bar.low)]
    IN IF o.order_type = "MKT"
       THEN FillMarketOrder(oid, o, bar, remaining_quantity)
       ELSE IF o.order_type = "LMT"
       THEN FillLimitOrder(oid, o, bar, remaining_quantity)
       ELSE IF o.order_type = "STP"
       THEN FillStopOrder(oid, o, bar, remaining_quantity)
       ELSE IF o.order_type = "STP_LMT"
       THEN FillStopLimitOrder(oid, o, bar, remaining_quantity)
       ELSE IF o.order_type = "TRAIL"
       THEN FillTrailingStopOrder(oid, o, bar, remaining_quantity)
       ELSE Matched(NoFill, o)

CheckOrder(oid, order, bar, remaining_quantity) ==
    IF order.order_type = "MKT"
    THEN FillMarketOrder(oid, order, bar, remaining_quantity)
    ELSE IF order.order_type = "LMT"
    THEN FillLimitOrder(oid, order, bar, remaining_quantity)
    ELSE IF order.order_type = "STP"
    THEN FillStopOrder(oid, order, bar, remaining_quantity)
    ELSE IF order.order_type = "STP_LMT"
    THEN FillStopLimitOrder(oid, order, bar, remaining_quantity)
    ELSE IF order.order_type = "TRAIL"
    THEN FillTrailingStopOrder(oid, order, bar, remaining_quantity)
    ELSE Matched(NoFill, order)

\* the map ords without the key oid (del self.orders[oid])
Del(ords, oid) == [i \in (DOMAIN ords) \ {oid} |-> ords[i]]

\* the map ords with ords[oid] = order
Put(ords, oid, order) ==
    [i \in (DOMAIN ords) \cup {oid} |-> IF i = oid THEN order ELSE ords[i]]

\* variant: a filled order is deleted only when it is overfilled
Settle_KeepsFilled(ords, oid, r) ==
    IF r.raised \/ r.fill = NoFill
    THEN [orders |-> Put(ords, oid, r.order), fills |-> <<>>,
          raised |-> r.raised]
    ELSE [orders |->
              IF r.order.filled_quantity + r.fill.quantity > r.order.quantity
              THEN Del(ords, oid)
              ELSE Put(ords, oid, [r.order EXCEPT
                                      !.filled_quantity = @ + r.fill.quantity]),
          fills |-> <<r.fill>>, raised |-> FALSE]

\* What the loop body does with the outcome r of _check_order: the fill is
\* put on the bus, filled_quantity grows by its quantity, and the order is
\* deleted once filled_quantity >= quantity.
Settle(ords, oid, r) ==
    IF r.raised
    THEN [orders |-> Put(ords, oid, r.order), fills |-> <<>>, raised |-> TRUE]
    ELSE IF r.fill = NoFill
    THEN [orders |-> Put(ords, oid, r.order), fills |-> <<>>, raised |-> FALSE]
    ELSE [orders |->
              IF r.order.filled_quantity + r.fill.quantity >= r.order.quantity
              THEN Del(ords, oid)
              ELSE Put(ords, oid, [r.order EXCEPT
                                      !.filled_quantity = @ + r.fill.quantity]),
          fills |-> <<r.fill>>, raised |-> FALSE]

\* variant: the trailing extrema are those of the current bar alone
MatchOne_Reset(ords, oid, bars) ==
    LET order == ords[oid]
        bar == bars[order.symbol]
        seen == IF order.order_type = "TRAIL"
                THEN [order EXCEPT !.highest_price_seen = bar.high,
                                   !.lowest_price_seen = bar.low]
                ELSE order
        remaining_quantity == seen.quantity - seen.filled_quantity
    IN IF remaining_quantity <= 0
       THEN [orders |-> Del(ords, oid), fills |-> <<>>, raised |-> FALSE]
       ELSE Settle(ords, oid, CheckOrder(oid, seen, bar, remaining_quantity))

\* One iteration of the loop of update, which is also the body of
\* process_immediate_order: trailing extrema, remaining quantity, matching
\* rule, and the settling of its outcome.
MatchOne(ords, oid, bars) ==
    LET order == ords[oid]
        bar == bars[order.symbol]
        seen == IF order.order_type = "TRAIL"
                THEN [order EXCEPT !.highest_price_seen = Max(@, bar.high),
                                   !.lowest_price_seen = Min(@, bar.low)]
                ELSE order
        remaining_quantity == seen.quantity - seen.filled_quantity
    IN IF remaining_quantity <= 0
       THEN [orders |-> Del(ords, oid), fills |-> <<>>, raised |-> FALSE]
       ELSE Settle(ords, oid, CheckOrder(oid, seen, bar, remaining_quantity))

SetMin(S) == CHOOSE x \in S : \A y \in S : x <= y

\* the quantity the fills of a pass have taken so far
RECURSIVE SumFilled(_)
SumFilled(fills) ==
    IF fills = <<>> THEN 0 ELSE fills[1].quantity + SumFilled(Tail(fills))

\* the outcome m of one more iteration joined to the outcome acc so far
Join(acc, m) ==
    [orders |-> m.orders, fills |-> acc.fills \o m.fills, raised |-> m.raised]

\* the loop of a pass whose orders draw on the bar's volume one after another
RECURSIVE UpdateLoop_SharedVolume(_, _, _)
UpdateLoop_SharedVolume(todo, acc, bars) ==
    IF todo = {} \/ acc.raised THEN acc
    ELSE UpdateLoop_SharedVolume(
             todo \ {SetMin(todo)},
             Join(acc, MatchOne(acc.orders, SetMin(todo),
                                [s \in DOMAIN bars |->
                                    [bars[s] EXCEPT !.volume =
                                        Max(0, @ - SumFilled(acc.fills))]])),
             bars)

\* the loop of update over list(self.orders.items()), in insertion order; an
\* error raised in one iteration ends the loop
RECURSIVE UpdateLoop(_, _, _)
UpdateLoop(todo, acc, bars) ==
    IF todo = {} \/ acc.raised THEN acc
    ELSE UpdateLoop(todo \ {SetMin(todo)},
                    Join(acc, MatchOne(acc.orders, SetMin(todo), bars)), bars)

\* variant: the cap of a bar is shared by the orders of the pass
EngineUpdate_SharedVolume(ords, bars) ==
    UpdateLoop_SharedVolume(DOMAIN ords,
                            [orders |-> ords, fills |-> <<>>, raised |-> FALSE],
                            bars)

EngineUpdate(ords, bars) ==
    UpdateLoop(DOMAIN ords, [orders |-> ords, fills |-> <<>>, raised |-> FALSE],
               bars)

\* variant: the immediate pass matches every resting order again
ProcessImmediateOrder_WholeBook(ords, oid, bars) == EngineUpdate(ords, bars)

ProcessImmediateOrder(ords, oid, bars) ==
    IF oid \in DOMAIN ords THEN MatchOne(ords, oid, bars)
    ELSE [orders |-> ords, fills |-> <<>>, raised |-> FALSE]

\* variant: the id is one more than the number of resting orders
ExecuteOrder_CountsResting(ords, last_id, event) ==
    LET id == Cardinality(DOMAIN ords) + 1
    IN [orders |-> Put(ords, id, [event EXCEPT !.order_id = id]),
        order_id |-> id]

\* execute_order, ORDER branch
ExecuteOrder(ords, last_id, event) ==
    [orders |-> Put(ords, last_id + 1, [event EXCEPT !.order_id = last_id + 1]),
     order_id |-> last_id + 1]

\* variant: a cancel leaves the resting set as it is
ExecuteCancel_Ignored(ords, event) == ords

\* variant: a cancel for an id that is not resting takes the oldest resting
\* order instead
ExecuteCancel_OrOldest(ords, event) ==
    IF event.order_id \in DOMAIN ords THEN Del(ords, event.order_id)
    ELSE IF DOMAIN ords # {} THEN Del(ords, SetMin(DOMAIN ords))
    ELSE ords

\* execute_order, CANCEL_ORDER branch
ExecuteCancel(ords, event) ==
    IF event.order_id \in DOMAIN ords THEN Del(ords, event.order_id) ELSE ords

(***************************************************************************)
(* Portfolio: sizing, Signal -> Order, snapshots.                          *)
(***************************************************************************)
CalculateQuantity(symbol, sizing_type, sizing_value) ==
    LET current_price == latest_bars[symbol].close
    IN IF current_price = 0 THEN 0
       ELSE IF sizing_type = "FIXED_SHARES" THEN IntOf(sizing_value)
       ELSE IF sizing_type = "PERCENT_EQUITY"
       THEN LET total_equity == current_holdings.total
                capital_to_invest == RMul(total_equity, sizing_value)
            IN IntOf(RDiv(capital_to_invest, R(current_price)))
       ELSE IF sizing_type = "FIXED_CAPITAL"
       THEN IntOf(RDiv(sizing_value, R(current_price)))
       ELSE 100

\* variant: LONG and SHORT signals are acted on whatever the position is
GenerateOrder_AnyPosition(signal) ==
    LET mkt_quantity == CalculateQuantity(signal.symbol, signal.sizing_type,
                                          signal.sizing_value)
    IN IF mkt_quantity <= 0 THEN NoEvent
       ELSE IF signal.signal_type = "LONG"
       THEN OrderEvent(signal.symbol, "MKT", mkt_quantity, "BUY", None, None,
                       None, FALSE)
       ELSE IF signal.signal_type = "SHORT"
       THEN OrderEvent(signal.symbol, "MKT", mkt_quantity, "SELL", None, None,
                       None, FALSE)
       ELSE NoEvent

GenerateOrder(signal) ==
    LET symbol == signal.symbol
        signal_type == signal.signal_type
        mkt_quantity == CalculateQuantity(symbol, signal.sizing_type,
                                          signal.sizing_value)
        cur_quantity == current_positions[symbol]
        Mkt(q, d, imm) == OrderEvent(symbol, "MKT", q, d, None, None, None, imm)
    IN IF mkt_quantity <= 0 THEN NoEvent
       ELSE IF signal_type = "LONG" /\ cur_quantity = 0
       THEN Mkt(mkt_quantity, "BUY", FALSE)
       ELSE IF signal_type = "SHORT" /\ cur_quantity = 0
       THEN Mkt(mkt_quantity, "SELL", FALSE)
       ELSE IF signal_type = "EXIT" /\ cur_quantity > 0
       THEN Mkt(Abs(cur_quantity), "SELL", FALSE)
       ELSE IF signal_type = "EXIT" /\ cur_quantity < 0
       THEN Mkt(Abs(cur_quantity), "BUY", FALSE)
       ELSE IF signal_type = "MKT_IMMEDIATE_LONG" /\ cur_quantity = 0
       THEN Mkt(mkt_quantity, "BUY", TRUE)
       ELSE IF signal_type = "MKT_IMMEDIATE_SHORT" /\ cur_quantity = 0
       THEN Mkt(mkt_quantity, "SELL", TRUE)
       ELSE IF signal_type = "MKT_IMMEDIATE_EXIT_LONG" /\ cur_quantity > 0
       THEN Mkt(Abs(cur_quantity), "SELL", TRUE)
       ELSE IF signal_type = "MKT_IMMEDIATE_EXIT_SHORT" /\ cur_quantity < 0
       THEN Mkt(Abs(cur_quantity), "BUY", TRUE)
       ELSE NoEvent

RECURSIVE SumValues(_, _)
SumValues(S, f) ==
    IF S = {} THEN R(0)
    ELSE LET x == CHOOSE y \in S : TRUE
         IN RAdd(f[x], SumValues(S \ {x}, f))

\* update_timeindex, the record appended to all_positions
PositionSnapshot(bars) ==
    [positions |-> [s \in symbol_list |-> current_positions[s]],
     datetime |-> bars[first_symbol].time]

\* update_timeindex, the record appended to all_holdings
HoldingsSnapshot(bars) ==
    LET values == [s \in symbol_list |->
                      RMul(R(current_positions[s]), R(bars[s].close))]
    IN [values |-> values, datetime |-> bars[first_symbol].time,
        cash |-> current_holdings.cash,
        commission |-> current_holdings.commission,
        total |-> RAdd(current_holdings.cash, SumValues(symbol_list, values))]

(***************************************************************************)
(* State after construction.                                               *)
(***************************************************************************)
InitPortfolio ==
    /\ current_positions = [s \in symbol_list |-> 0]
    /\ current_holdings = [cash |-> initial_capital, commission |-> R(0),
                           total |-> initial_capital]
    /\ open_positions_details = [s \in symbol_list |-> NoLot]
    /\ closed_trades = <<>>
    /\ all_positions = <<[positions |-> [s \in symbol_list |-> 0],
                          datetime |-> 0]>>
    /\ all_holdings = <<[values |-> [s \in symbol_list |-> R(0)],
                         datetime |-> 0, cash |-> initial_capital,
                         commission |-> R(0), total |-> initial_capital]>>
    /\ last_fill = NoFill
    /\ applied = 0

InitEngine(bps, pct) ==
    /\ orders = <<>>
    /\ order_id = 0
    /\ slippage_bps = bps
    /\ partial_fill_volume_pct = pct
    /\ emitted = <<>>
    /\ canceled = <<>>
    /\ submitted = <<>>
    /\ registered_at = <<>>

InitRun ==
    /\ bus = <<>>
    /\ latest_bars = [s \in symbol_list |-> NoBar]
    /\ bar_count = 0
    /\ continue_backtest = TRUE
    /\ pc = "advance"
    /\ current_market_event = NoEvent
    /\ error_log = <<>>
    /\ enqueued = <<>>
    /\ get_results = <<>>
    /\ strategy_view = [timeindex |-> None, snapshots |-> 0]
    /\ origin = <<>>

(***************************************************************************)
(* The ledger driven directly with FillEvents, as the portfolio tests do.  *)
(***************************************************************************)
LedgerPrices == {1, 2}

LedgerQuantities == {1, 2}

LedgerCommissions == {0, 2}

LedgerFills ==
    { FillEvent(0, s, q, d, R(p * q), R(c), 0, FALSE) :
        s \in symbol_list, q \in LedgerQuantities, d \in {"BUY", "SELL"},
        p \in LedgerPrices, c \in LedgerCommissions }

InitLedger == InitPortfolio /\ InitEngine(0, R(1)) /\ InitRun

LedgerUpdateFill ==
    /\ applied < MaxFills
    /\ \E f \in LedgerFills : UpdateFill([f EXCEPT !.timeindex = applied + 1])
    /\ UNCHANGED <<busVars, dataVars, driverVars, engineVars, configVars,
                   historyVars, logVars>>
    /\ UNCHANGED <<callVars, signalVars>>

NextLedger == LedgerUpdateFill

SpecLedger == InitLedger /\ [][NextLedger]_vars

(***************************************************************************)
(* The event bus driven directly, as its tests do, with events of every   *)
(* type; get is called without argument, as the tests call it, and with    *)
(* the argument False, as the driver calls it.                             *)
(***************************************************************************)
BusEvents ==
    { MarketEvent(1), CancelOrderEvent(1),
      SignalEvent(first_symbol, 1, "LONG", "FIXED_SHARES", R(2), "MKT", None,
                  None, None, FALSE),
      OrderEvent(first_symbol, "MKT", 2, "BUY", None, None, None, FALSE),
      FillEvent(1, first_symbol, 2, "BUY", R(4), R(0), 1, FALSE) }

\* the caller of a get that waits on the empty queue does not come back
Waiting ==
    /\ get_results # <<>>
    /\ get_results[Len(get_results)].outcome = "Blocked"

BusPut ==
    /\ ~Waiting
    /\ Len(enqueued) < MaxPuts
    /\ \E e \in BusEvents :
          /\ bus' = EventBusPut(bus, e)
          /\ enqueued' = Append(enqueued, e)
    /\ UNCHANGED <<get_results, dataVars, driverVars, engineVars, configVars,
                   ledgerVars, historyVars, logVars, signalVars>>

BusGet(args) ==
    /\ ~Waiting
    /\ Len(get_results) < MaxPuts + 2
    /\ bus' = EventBusGet(bus, args).queue
    /\ get_results' = Append(get_results,
                             [outcome |-> EventBusGet(bus, args).outcome,
                              event |-> EventBusGet(bus, args).event])
    /\ UNCHANGED <<enqueued, dataVars, driverVars, engineVars, configVars,
                   ledgerVars, historyVars, logVars, signalVars>>

NextBus ==
    \/ BusPut
    \/ BusGet(<<>>)
    \/ BusGet(<<FALSE>>)

SpecBus == InitLedger /\ [][NextBus]_vars

(***************************************************************************)
(* Bar source.                                                             *)
(***************************************************************************)
\* update_bars when every symbol has a next bar; the bar's time is its index
UpdateBars(newBars) ==
    /\ latest_bars' = [s \in symbol_list |->
                          [newBars[s] EXCEPT !.time = bar_count + 1]]
    /\ bar_count' = bar_count + 1
    /\ UNCHANGED continue_backtest

\* the second symbol is quoted with one flat series throughout
OtherBar == Bar(0, 1, 1, 1, 1, 1)

BarsWith(b) == [s \in symbol_list |-> IF s = first_symbol THEN b ELSE OtherBar]

(***************************************************************************)
(* The handlers as the driver loop calls them.  `rest` is the bus after    *)
(* the handled event was taken from it.                                    *)
(***************************************************************************)
\* the engine after a matching pass with outcome m: the orders it left and its
\* fills, put on the bus behind `rest` and ahead of `more`
AfterPass(m, rest, more) ==
    /\ orders' = m.orders
    /\ emitted' = emitted \o m.fills
    /\ bus' = (rest \o m.fills) \o more

\* variant: every registered order is passed to process_immediate_order
Registered_MatchedAtOnce(e, event, rest) ==
    /\ order_id' = e.order_id
    /\ submitted' = Put(submitted, e.order_id, e.orders[e.order_id])
    /\ registered_at' = Put(registered_at, e.order_id, bar_count)
    /\ AfterPass(IF current_market_event # NoEvent
                 THEN ProcessImmediateOrder(e.orders, e.order_id, latest_bars)
                 ELSE [orders |-> e.orders, fills |-> <<>>, raised |-> FALSE],
                 rest, <<>>)

\* the order e registered, then process_immediate_order for an immediate order
\* once a Market event has been recorded
Registered(e, event, rest) ==
    /\ order_id' = e.order_id
    /\ submitted' = Put(submitted, e.order_id, e.orders[e.order_id])
    /\ registered_at' = Put(registered_at, e.order_id, bar_count)
    /\ AfterPass(IF event.immediate_fill /\ current_market_event # NoEvent
                 THEN ProcessImmediateOrder(e.orders, e.order_id, latest_bars)
                 ELSE [orders |-> e.orders, fills |-> <<>>, raised |-> FALSE],
                 rest, <<>>)

\* variant: an immediate order is registered and left to the next Market event
HandleOrder_Deferred(event, rest) ==
    /\ Registered(ExecuteOrder(orders, order_id, event),
                  [event EXCEPT !.immediate_fill = FALSE], rest)
    /\ UNCHANGED canceled

\* ORDER: execute_order, then the immediate pass
HandleOrder(event, rest) ==
    /\ Registered(ExecuteOrder(orders, order_id, event), event, rest)
    /\ UNCHANGED canceled

\* CANCEL_ORDER: execute_order
HandleCancel(event, rest) ==
    /\ orders' = ExecuteCancel(orders, event)
    /\ canceled' = IF event.order_id \in 1..order_id
                      /\ event.order_id \notin DOMAIN canceled
                   THEN Put(canceled, event.order_id, Len(emitted))
                   ELSE canceled
    /\ bus' = rest
    /\ UNCHANGED <<order_id, emitted, submitted, registered_at>>

\* FILL: portfolio.update_fill
HandleFill(event, rest) ==
    /\ UpdateFill(event)
    /\ bus' = rest

\* SIGNAL: portfolio.update_signal
HandleSignal(event, rest) ==
    LET order == GenerateOrder(event)
    IN IF order = NoEvent
       THEN bus' = rest /\ UNCHANGED signalVars
       ELSE /\ bus' = Append(rest, order)
            /\ origin' = Append(origin, event.signal_type)

\* calculate_signals(event) is entered for the bar at hand with the portfolio
\* it holds a reference to; `snapshots` is the series it finds there
CalledWith(snapshots) ==
    [timeindex |-> latest_bars[first_symbol].time, snapshots |-> Len(snapshots)]

\* the positions and the holdings after update_fill has handled each of fills
RECURSIVE PositionsAfter(_, _)
PositionsAfter(positions, fills) ==
    IF fills = <<>> THEN positions
    ELSE PositionsAfter(UpdatePositionsFromFill(positions, fills[1]),
                        Tail(fills))

RECURSIVE HoldingsAfter(_, _)
HoldingsAfter(holdings, fills) ==
    IF fills = <<>> THEN holdings
    ELSE HoldingsAfter(UpdateHoldingsFromFill(holdings, fills[1]), Tail(fills))

\* variant: the snapshot is taken after the fills of the bar's pass are applied
AfterUpdate_SnapshotAfterFills(u, rest, signals) ==
    /\ AfterPass(u, rest, signals)
    /\ strategy_view' = CalledWith(all_holdings)
    /\ all_positions' =
          Append(all_positions,
                 [PositionSnapshot(latest_bars) EXCEPT
                     !.positions = PositionsAfter(current_positions, u.fills)])
    /\ all_holdings' =
          Append(all_holdings,
                 [HoldingsSnapshot(latest_bars) EXCEPT
                     !.cash = HoldingsAfter(current_holdings, u.fills).cash])

\* variant: the snapshot is taken only on a bar that filled no resting order
AfterUpdate_SnapshotWhenQuiet(u, rest, signals) ==
    IF u.fills # <<>>
    THEN /\ AfterPass(u, rest, signals)
         /\ UNCHANGED historyVars
    ELSE /\ AfterPass(u, rest, signals)
         /\ strategy_view' = CalledWith(all_holdings)
         /\ all_positions' = Append(all_positions, PositionSnapshot(latest_bars))
         /\ all_holdings' = Append(all_holdings, HoldingsSnapshot(latest_bars))

\* what follows update(event) in the MARKET branch: calculate_signals, which
\* finds the snapshot series as the previous bar left it, then
\* update_timeindex; an error raised by the engine pass u skips both
AfterUpdate(u, rest, signals) ==
    IF u.raised
    THEN /\ AfterPass(u, rest, <<>>)
         /\ UNCHANGED historyVars
    ELSE /\ AfterPass(u, rest, signals)
         /\ strategy_view' = CalledWith(all_holdings)
         /\ all_positions' = Append(all_positions, PositionSnapshot(latest_bars))
         /\ all_holdings' = Append(all_holdings, HoldingsSnapshot(latest_bars))

\* MARKET: the event is recorded, then engine pass, strategy, snapshot
HandleMarket(event, rest, signals) ==
    /\ current_market_event' = event
    /\ AfterUpdate(EngineUpdate(orders, latest_bars), rest, signals)
    /\ UNCHANGED <<order_id, canceled, submitted, registered_at>>

(***************************************************************************)
(* The engine driven directly, as the order tests do: orders and cancels   *)
(* are handed to execute_order, bars to update.                            *)
(***************************************************************************)
EngineSymbol == first_symbol

\* the engine's configurations: (slippage_bps, partial_fill_volume_pct)
EngineConfigs == {<<0, R(1)>>, <<100, Rat(1, 2)>>}

InitEngineRun ==
    /\ InitPortfolio /\ InitRun
    /\ \E c \in EngineConfigs : InitEngine(c[1], c[2])

EngineOrders ==
    { OrderEvent(EngineSymbol, "MKT", q, d, None, None, None, i) :
        q \in {1, 3}, d \in {"BUY", "SELL"}, i \in BOOLEAN }
    \cup { OrderEvent(EngineSymbol, "LMT", 3, "BUY", 2, None, None, FALSE) }
    \cup { OrderEvent(EngineSymbol, "TRAIL", 3, "SELL", None, None, 1, TRUE) }

EngineBars ==
    { Bar(0, 2, 2, 2, 2, 0), Bar(0, 2, 2, 2, 2, 1), Bar(0, 2, 2, 2, 2, 4),
      Bar(0, 3, 3, 3, 3, 2), Bar(0, 2, 3, 1, 2, 1) }

EngineSubmit(inputs) ==
    /\ order_id < MaxOrders
    /\ \E o \in inputs : HandleOrder(o, bus)
    /\ UNCHANGED <<dataVars, driverVars, configVars, ledgerVars, historyVars,
                   logVars>>
    /\ UNCHANGED <<callVars, signalVars>>

EngineCancel ==
    /\ \E i \in 1..MaxOrders :
          /\ i \notin DOMAIN canceled
          /\ HandleCancel(CancelOrderEvent(i), bus)
    /\ UNCHANGED <<dataVars, driverVars, configVars, ledgerVars, historyVars,
                   logVars>>
    /\ UNCHANGED <<callVars, signalVars>>

\* update_bars, the Market event taken from the bus, update(market_event)
EngineMarket(inputs, limit) ==
    /\ bar_count < limit
    /\ \E b \in inputs :
          /\ UpdateBars(BarsWith(b))
          /\ AfterPass(EngineUpdate(orders, latest_bars'), bus, <<>>)
    /\ current_market_event' = MarketEvent(bar_count + 1)
    /\ UNCHANGED <<pc, order_id, canceled, submitted, registered_at,
                   configVars, ledgerVars, historyVars, logVars>>
    /\ UNCHANGED <<callVars, signalVars>>

NextEngine ==
    \/ EngineSubmit(EngineOrders)
    \/ EngineCancel
    \/ EngineMarket(EngineBars, MaxBars)

SpecEngine == InitEngineRun /\ [][NextEngine]_vars

(***************************************************************************)
(* The engine handed orders that lack the price their type needs, next to  *)
(* orders that are complete.                                               *)
(***************************************************************************)
IncompleteOrders ==
    { OrderEvent(EngineSymbol, "LMT", 1, "BUY", None, None, None, FALSE),
      OrderEvent(EngineSymbol, "STP", 1, "SELL", None, None, None, FALSE),
      OrderEvent(EngineSymbol, "STP_LMT", 1, "BUY", None, 2, None, FALSE),
      OrderEvent(EngineSymbol, "TRAIL", 1, "SELL", None, None, None, FALSE) }

CompleteOrders ==
    { OrderEvent(EngineSymbol, "MKT", 1, "BUY", None, None, None, FALSE),
      OrderEvent(EngineSymbol, "LMT", 1, "BUY", 2, None, None, FALSE) }

NextSubmit ==
    \/ EngineSubmit(IncompleteOrders \cup CompleteOrders)
    \/ EngineMarket(EngineBars, MaxBars)

SpecSubmit == InitEngineRun /\ [][NextSubmit]_vars

(***************************************************************************)
(* One resting order of any type matched against any bars.                 *)
(***************************************************************************)
MatchOrders ==
    { OrderEvent(EngineSymbol, "MKT", 2, d, None, None, None, FALSE) :
        d \in {"BUY", "SELL"} }
    \cup { OrderEvent(EngineSymbol, "LMT", 2, d, 2, None, None, FALSE) :
             d \in {"BUY", "SELL"} }
    \cup { OrderEvent(EngineSymbol, "STP", 2, d, None, 2, None, FALSE) :
             d \in {"BUY", "SELL"} }
    \cup { OrderEvent(EngineSymbol, "STP_LMT", 2, d, l, 2, None, FALSE) :
             d \in {"BUY", "SELL"}, l \in {1, 2, 3} }
    \cup { OrderEvent(EngineSymbol, "TRAIL", 2, d, None, None, 1, FALSE) :
             d \in {"BUY", "SELL"} }

MatchPrices == {1, 2, 3}

MatchVolumes == {0, 1, 3}

\* bars with low <= open = close <= high
MatchBars ==
    { Bar(0, x[1], x[2], x[3], x[1], v) :
        x \in { y \in MatchPrices \X MatchPrices \X MatchPrices :
                   y[3] <= y[1] /\ y[1] <= y[2] },
        v \in MatchVolumes }

InitMatch ==
    /\ InitPortfolio /\ InitRun
    /\ \E c \in EngineConfigs, o \in MatchOrders :
          LET e == ExecuteOrder(<<>>, 0, o)
          IN /\ orders = e.orders
             /\ order_id = e.order_id
             /\ submitted = e.orders
             /\ registered_at = <<0>>
             /\ slippage_bps = c[1]
             /\ partial_fill_volume_pct = c[2]
             /\ emitted = <<>>
             /\ canceled = <<>>

NextMatch == EngineMarket(MatchBars, MaxMatchBars)

SpecMatch == InitMatch /\ [][NextMatch]_vars

(***************************************************************************)
(* The simulation driver: Backtester._run_backtest.                        *)
(*   pc = "advance": at the top of the outer loop                          *)
(*   pc = "drain":   in the inner loop, about to take the next event       *)
(*   pc = "halted":  the outer loop has been left                          *)
(***************************************************************************)
DriverBars ==
    { Bar(0, 2, 2, 2, 2, 0), Bar(0, 2, 3, 1, 3, 1), Bar(0, 1, 2, 1, 2, 4) }

\* Strategy.calculate_signals is supplied by the user: on each Market event it
\* puts nothing, one event of its choice or the same EXIT signal twice on the
\* bus
StrategySignals ==
    { SignalEvent(first_symbol, 0, t, "FIXED_SHARES", R(2), "MKT", None, None,
                  None, FALSE) :
        t \in {"LONG", "SHORT", "EXIT", "MKT_IMMEDIATE_LONG",
               "MKT_IMMEDIATE_SHORT", "MKT_IMMEDIATE_EXIT_LONG",
               "MKT_IMMEDIATE_EXIT_SHORT"} }
    \cup { SignalEvent(first_symbol, 0, "LONG", "PERCENT_EQUITY", Rat(1, 10),
                       "MKT", None, None, None, FALSE) }
    \cup { SignalEvent(first_symbol, 0, "LONG", "FIXED_CAPITAL", R(3), "MKT",
                       None, None, None, FALSE),
             SignalEvent(first_symbol, 0, "EXIT", "FIXED_SHARES", R(0), "MKT",
                       None, None, None, FALSE),
             SignalEvent(first_symbol, 0, "LONG", "FIXED_SHARES", R(2), "LMT",
                       2, None, None, FALSE),
             SignalEvent(first_symbol, 0, "LONG", "FIXED_SHARES", R(2), "MKT",
                       None, None, None, TRUE) }

StrategyCancels == { CancelOrderEvent(i) : i \in 1..MaxOrders }

\* the signals the strategy may put twice on one Market event
RepeatedSignals ==
    { s \in StrategySignals :
        s.signal_type = "EXIT" /\ s.sizing_value = R(2) }

CalculateSignals(event) ==
    {<<>>}
    \cup { <<[s EXCEPT !.datetime = event.timeindex]>> : s \in StrategySignals }
    \cup { <<c>> : c \in StrategyCancels }
    \cup { <<[s EXCEPT !.datetime = event.timeindex],
             [s EXCEPT !.datetime = event.timeindex]>> : s \in RepeatedSignals }

\* the outer loop asks for the next bar, and the source has one
DriverAdvance ==
    /\ pc = "advance"
    /\ continue_backtest
    /\ bar_count < MaxBars
    /\ \E b \in DriverBars : UpdateBars(BarsWith(b))
    /\ bus' = Append(bus, MarketEvent(bar_count + 1))
    /\ pc' = "drain"
    /\ UNCHANGED <<current_market_event, engineVars, configVars, ledgerVars,
                   historyVars, logVars>>
    /\ UNCHANGED <<callVars, signalVars>>

\* variant: the exhausted source leaves continue_backtest set
DriverExhaust_KeepsFlag ==
    /\ pc = "advance"
    /\ continue_backtest
    /\ pc' = "drain"
    /\ UNCHANGED <<bus, latest_bars, bar_count, continue_backtest,
                   current_market_event, engineVars, configVars, ledgerVars,
                   historyVars, logVars>>
    /\ UNCHANGED <<callVars, signalVars>>

\* the outer loop asks for the next bar, and the source is exhausted
DriverExhaust ==
    /\ pc = "advance"
    /\ continue_backtest
    /\ continue_backtest' = FALSE
    /\ pc' = "drain"
    /\ UNCHANGED <<bus, latest_bars, bar_count, current_market_event,
                   engineVars, configVars, ledgerVars, historyVars, logVars>>
    /\ UNCHANGED <<callVars, signalVars>>

\* variant: leaving the outer loop after a bar, the driver takes one more
\* snapshot
DriverHalt_FinalSnapshot ==
    /\ pc = "advance"
    /\ ~continue_backtest
    /\ pc' = "halted"
    /\ IF bar_count = 0 THEN UNCHANGED <<all_positions, all_holdings>>
       ELSE /\ all_positions' =
                  Append(all_positions, PositionSnapshot(latest_bars))
            /\ all_holdings' =
                  Append(all_holdings, HoldingsSnapshot(latest_bars))
    /\ UNCHANGED <<busVars, dataVars, current_market_event, engineVars,
                   configVars, ledgerVars, strategy_view, logVars>>
    /\ UNCHANGED <<callVars, signalVars>>

\* the outer loop finds continue_backtest false and breaks
DriverHalt ==
    /\ pc = "advance"
    /\ ~continue_backtest
    /\ pc' = "halted"
    /\ UNCHANGED <<busVars, dataVars, current_market_event, engineVars,
                   configVars, ledgerVars, historyVars, logVars>>
    /\ UNCHANGED <<callVars, signalVars>>

\* variant: the inner loop breaks whatever the bus holds
DrainEmpty_Early ==
    /\ pc = "drain"
    /\ pc' = "advance"
    /\ UNCHANGED <<busVars, dataVars, current_market_event, engineVars,
                   configVars, ledgerVars, historyVars, logVars>>
    /\ UNCHANGED <<callVars, signalVars>>

\* the inner loop finds the bus empty and breaks
DrainEmpty ==
    /\ pc = "drain"
    /\ bus = <<>>
    /\ pc' = "advance"
    /\ UNCHANGED <<busVars, dataVars, current_market_event, engineVars,
                   configVars, ledgerVars, historyVars, logVars>>
    /\ UNCHANGED <<callVars, signalVars>>

Taking(type) == pc = "drain" /\ bus # <<>> /\ Head(bus).type = type

\* whether the handler of the dequeued event raises an exception
HandlingRaises(event) ==
    IF event.type = "MARKET" THEN EngineUpdate(orders, latest_bars).raised
    ELSE IF event.type = "ORDER"
    THEN /\ event.immediate_fill
         /\ current_market_event # NoEvent
         /\ ProcessImmediateOrder(ExecuteOrder(orders, order_id, event).orders,
                                  order_id + 1, latest_bars).raised
    ELSE IF event.type = "FILL"
    THEN TrackTradesFromFill(open_positions_details, closed_trades,
                             event).raised
    ELSE FALSE

LogError(event) ==
    Append(error_log, [type |-> event.type, bar |-> bar_count])

\* variant: an exception raised by a handler leaves the driver loop
Caught_Propagates(event) ==
    IF HandlingRaises(event)
    THEN error_log' = LogError(event) /\ pc' = "halted"
    ELSE UNCHANGED <<error_log, pc>>

\* the try statement around the dispatch: an exception is logged and the inner
\* loop goes on with the next event
Caught(event) ==
    IF HandlingRaises(event)
    THEN error_log' = LogError(event) /\ pc' = pc
    ELSE UNCHANGED <<error_log, pc>>

DispatchMarket ==
    /\ Taking("MARKET")
    /\ \E signals \in CalculateSignals(Head(bus)) :
          HandleMarket(Head(bus), Tail(bus), signals)
    /\ Caught(Head(bus))
    /\ UNCHANGED <<dataVars, configVars, ledgerVars>>
    /\ UNCHANGED <<callVars, signalVars>>

DispatchSignal ==
    /\ Taking("SIGNAL")
    /\ HandleSignal(Head(bus), Tail(bus))
    /\ Caught(Head(bus))
    /\ UNCHANGED <<dataVars, current_market_event, engineVars, configVars,
                   ledgerVars, historyVars>>
    /\ UNCHANGED callVars

DispatchOrder ==
    /\ Taking("ORDER")
    /\ HandleOrder(Head(bus), Tail(bus))
    /\ Caught(Head(bus))
    /\ UNCHANGED <<dataVars, current_market_event, configVars, ledgerVars,
                   historyVars>>
    /\ UNCHANGED <<callVars, signalVars>>

DispatchFill ==
    /\ Taking("FILL")
    /\ HandleFill(Head(bus), Tail(bus))
    /\ Caught(Head(bus))
    /\ UNCHANGED <<dataVars, current_market_event, engineVars, configVars,
                   historyVars>>
    /\ UNCHANGED <<callVars, signalVars>>

DispatchCancel ==
    /\ Taking("CANCEL_ORDER")
    /\ HandleCancel(Head(bus), Tail(bus))
    /\ Caught(Head(bus))
    /\ UNCHANGED <<dataVars, current_market_event, configVars, ledgerVars,
                   historyVars>>
    /\ UNCHANGED <<callVars, signalVars>>

\* Backtester._generate_trading_instances: the engine with its defaults
Init == InitPortfolio /\ InitEngine(0, R(1)) /\ InitRun

Next ==
    \/ DriverAdvance
    \/ DriverExhaust
    \/ DriverHalt
    \/ DrainEmpty
    \/ DispatchMarket
    \/ DispatchSignal
    \/ DispatchOrder
    \/ DispatchFill
    \/ DispatchCancel

Spec == Init /\ [][Next]_vars

\* The driver is the one thread of the program and nothing suspends it:
\* until it has left the outer loop it goes on to its next step.  A step is
\* possible in every state but the halted ones, which makes this weak
\* fairness of Next.
Runs == []<>(pc = "halted") \/ []<><<Next>>_vars

SpecLive == Spec /\ Runs

(***************************************************************************)
(* Helpers of the properties.                                              *)
(***************************************************************************)
RECURSIVE SumPnl(_)
SumPnl(trades) ==
    IF trades = <<>> THEN R(0)
    ELSE RAdd(trades[1].pnl, SumPnl(Tail(trades)))

AllFlat == \A s \in symbol_list : ~HasLot(open_positions_details, s)

RECURSIVE SumQty(_)
SumQty(fills) ==
    IF fills = <<>> THEN 0 ELSE fills[1].quantity + SumQty(Tail(fills))

FillsOf(fills, id) == SelectSeq(fills, LAMBDA f : f.order_id = id)

\* the fills a step puts on the bus
NewFills == SubSeq(emitted', Len(emitted) + 1, Len(emitted'))

\* a step in which update runs for a new Market event
MarketStep == current_market_event' # current_market_event

\* a step in which an order is registered and passed to the immediate pass
ImmediateStep ==
    /\ order_id' = order_id + 1
    /\ submitted'[order_id'].immediate_fill
    /\ current_market_event # NoEvent

\* the orders a step matches against the latest bar, each as it was before
MatchedIds ==
    IF MarketStep THEN DOMAIN orders
    ELSE IF ImmediateStep THEN {order_id'} ELSE {}

BeforeMatch(id) == IF id \in DOMAIN orders THEN orders[id] ELSE submitted'[id]

\* price * quantity after slippage of bps basis points against the direction
SlippedCost(price, quantity, direction) ==
    IF direction = "BUY"
    THEN Rat(price * quantity * (10000 + slippage_bps), 10000)
    ELSE Rat(price * quantity * (10000 - slippage_bps), 10000)

\* a step in which the driver calls update_bars
UpdateBarsStep == pc = "advance" /\ pc' = "drain"

MarketCount(queue) == Len(SelectSeq(queue, LAMBDA e : e.type = "MARKET"))

\* a step in which update_fill handles the fill last_fill'
FillStep == applied' = applied + 1

\* the lot of the handled fill's symbol before the step, and after it
LotBefore == open_positions_details[last_fill'.symbol]

LotAfter == open_positions_details'[last_fill'.symbol]

\* the handled fill is opposite to the lot open before the step
FillOpposes ==
    \/ LotBefore.direction = "LONG" /\ last_fill'.direction = "SELL"
    \/ LotBefore.direction = "SHORT" /\ last_fill'.direction = "BUY"

\* the price per share of the handled fill
FillPrice ==
    IF last_fill'.quantity # 0
    THEN RDiv(last_fill'.fill_cost, R(last_fill'.quantity))
    ELSE R(0)

\* the step appends one closed trade and leaves the earlier ones as they were
OneTradeAppended ==
    /\ Len(closed_trades') = Len(closed_trades) + 1
    /\ SubSeq(closed_trades', 1, Len(closed_trades)) = closed_trades

LastTrade(trades) == trades[Len(trades)]

\* the driver is about to hand the Signal at the head of the bus to the
\* portfolio
SignalStep == Taking("SIGNAL")

\* the step has put one more event on the bus than it took off
OrderProduced == Len(bus') = Len(bus)

\* the event the step has put on the bus last
Produced == bus'[Len(bus')]

\* the stop condition of an order o on a bar
StopTriggered(o, bar) ==
    IF o.direction = "BUY" THEN bar.high >= o.stop_price
    ELSE bar.low <= o.stop_price

\* the LMT rule for an order o on a bar: whether it fills, and at which price
LimitRuleFills(o, bar) ==
    IF o.direction = "BUY" THEN bar.low <= o.limit_price
    ELSE bar.open >= o.limit_price \/ bar.high >= o.limit_price

LimitRulePrice(o, bar) ==
    IF o.direction = "BUY"
    THEN (IF bar.open <= o.limit_price THEN bar.open ELSE o.limit_price)
    ELSE (IF bar.open >= o.limit_price THEN bar.open ELSE o.limit_price)

(***************************************************************************)
(* C1: every fill handled by update_fill changes cash by                   *)
(* -(sign * fill_cost) - commission, adds the fill's commission to the     *)
(* cumulative commission and changes the symbol's position by              *)
(* sign * quantity (sign +1 for BUY, -1 for SELL), leaving the other       *)
(* symbols' positions alone.                                               *)
(***************************************************************************)
C1_Step ==
    applied' = applied + 1 =>
        LET f == last_fill'
            sign == IF f.direction = "BUY" THEN 1 ELSE -1
        IN /\ current_holdings'.cash =
                 RSub(RSub(current_holdings.cash, RMul(R(sign), f.fill_cost)),
                      f.commission)
           /\ current_holdings'.commission =
                 RAdd(current_holdings.commission, f.commission)
           /\ current_positions'[f.symbol] =
                 current_positions[f.symbol] + sign * f.quantity
           /\ \A s \in symbol_list \ {f.symbol} :
                 current_positions'[s] = current_positions[s]

C1_FillAccounting == [][C1_Step]_vars

C1_Witness ==
    /\ last_fill.type = "FILL"
    /\ last_fill.direction = "SELL"
    /\ ~RIsZero(last_fill.commission)
    /\ current_positions[last_fill.symbol] < 0
    /\ RLt(initial_capital, current_holdings.cash)

(***************************************************************************)
(* C2: whenever no symbol has an open lot, the pnl of all closed trades    *)
(* sums to cash - initial_capital.                                         *)
(***************************************************************************)
C2_RealizedPnlIsCashChange ==
    AllFlat => SumPnl(closed_trades) = RSub(current_holdings.cash, initial_capital)

(***************************************************************************)
(* C3: for each symbol an open lot exists iff the position is non-zero,    *)
(* the lot's quantity is |position| and the lot is LONG iff the position   *)
(* is positive.  (One lot per symbol at most holds by construction: the    *)
(* lots are a map keyed by symbol.)  The engine's fill of quantity 0 on a  *)
(* bar without volume opens a lot of quantity 0 on a flat position.        *)
(***************************************************************************)
C3_LotMatchesPosition ==
    \A s \in symbol_list :
        LET lot == open_positions_details[s]
            position == current_positions[s]
        IN /\ HasLot(open_positions_details, s) <=> position # 0
           /\ HasLot(open_positions_details, s) =>
                 /\ lot.quantity = Abs(position)
                 /\ (lot.direction = "LONG") <=> position > 0

(***************************************************************************)
(* C4: after every engine operation each resting order has                 *)
(* filled_quantity < quantity, and an order leaves the resting set (or,    *)
(* registered with immediate_fill, never rests) only by being filled up to *)
(* its quantity in that step or by a CancelOrder for its id.               *)
(***************************************************************************)
C4_Resting ==
    \A id \in DOMAIN orders : orders[id].filled_quantity < orders[id].quantity

C4_Leaves ==
    \A id \in (DOMAIN orders \cup DOMAIN submitted') \ DOMAIN orders' :
        id \notin DOMAIN submitted \/ id \in DOMAIN orders =>
            \/ id \in DOMAIN canceled' /\ id \notin DOMAIN canceled
            \/ /\ FillsOf(NewFills, id) # <<>>
               /\ SumQty(FillsOf(emitted', id)) = submitted'[id].quantity

C4_RestingSet == [][C4_Resting' /\ C4_Leaves]_vars

C4_Witness ==
    /\ \E id \in DOMAIN submitted :
          /\ id \notin DOMAIN orders
          /\ id \notin DOMAIN canceled
          /\ Len(FillsOf(emitted, id)) >= 2
    /\ \E id \in DOMAIN canceled : SumQty(FillsOf(emitted, id)) > 0

(***************************************************************************)
(* C5: each time a MKT order is matched against a bar exactly one fill is  *)
(* emitted, of quantity min(Q - filled_quantity, floor(volume * pct)) and  *)
(* with partial_fill = (quantity < remaining); the order is removed in the *)
(* step that emits a non-partial fill and in no other; filled_quantity is  *)
(* the sum of the emitted quantities and never exceeds Q; the fills of an  *)
(* order that has left by being filled sum to Q and only the last one is   *)
(* not partial.                                                            *)
(***************************************************************************)
C5_Step ==
    \A id \in MatchedIds :
        LET o == BeforeMatch(id)
            fs == FillsOf(NewFills, id)
            remaining == o.quantity - o.filled_quantity
            cap == (latest_bars'[o.symbol].volume * partial_fill_volume_pct[1])
                       \div partial_fill_volume_pct[2]
        IN o.order_type = "MKT" =>
              /\ Len(fs) = 1
              /\ fs[1].quantity = (IF remaining <= cap THEN remaining ELSE cap)
              /\ fs[1].partial_fill = (fs[1].quantity < remaining)
              /\ (id \in DOMAIN orders') = fs[1].partial_fill

C5_Sums ==
    \A id \in DOMAIN submitted :
        LET fs == FillsOf(emitted, id)
            Q == submitted[id].quantity
        IN submitted[id].order_type = "MKT" =>
              /\ SumQty(fs) <= Q
              /\ id \in DOMAIN orders =>
                    /\ orders[id].filled_quantity = SumQty(fs)
                    /\ \A k \in 1..Len(fs) : fs[k].partial_fill
              /\ id \notin DOMAIN orders /\ id \notin DOMAIN canceled =>
                    /\ SumQty(fs) = Q
                    /\ \A k \in 1..Len(fs) : fs[k].partial_fill = (k < Len(fs))

C5_PartialFills == [][C5_Step /\ C5_Sums']_vars

C5_Witness ==
    \E id \in DOMAIN submitted :
        /\ submitted[id].order_type = "MKT"
        /\ submitted[id].quantity = 3
        /\ id \notin DOMAIN orders
        /\ id \notin DOMAIN canceled
        /\ Len(FillsOf(emitted, id)) = 3
        /\ FillsOf(emitted, id)[2].quantity = 2

(***************************************************************************)
(* C6: whenever the driver calls update_bars the bus is empty and every    *)
(* fill the engine has emitted has been applied to the portfolio; a bar    *)
(* that arrives puts its Market event alone on the bus, and the bus never  *)
(* holds more than one Market event.                                       *)
(***************************************************************************)
C6_Step ==
    /\ UpdateBarsStep =>
          /\ bus = <<>>
          /\ applied = Len(emitted)
          /\ bar_count' # bar_count => bus' = <<MarketEvent(bar_count')>>
    /\ MarketCount(bus') <= 1

C6_DrainedBeforeNextBar == [][C6_Step]_vars

C6_Witness ==
    /\ bar_count = 3
    /\ bus = <<MarketEvent(3)>>
    /\ applied >= 1
    /\ DOMAIN canceled # {}

(***************************************************************************)
(* C7: once a CancelOrder for an order has been handled the order is not   *)
(* in the resting set and no fill emitted afterwards carries its id,       *)
(* whether it was unfilled or partially filled when canceled.              *)
(***************************************************************************)
C7_CanceledStaysOut ==
    \A id \in DOMAIN canceled :
        /\ id \notin DOMAIN orders
        /\ \A k \in (canceled[id] + 1)..Len(emitted) : emitted[k].order_id # id

C7_Witness ==
    \E id \in DOMAIN canceled :
        /\ canceled[id] > 0
        /\ FillsOf(emitted, id) # <<>>
        /\ SumQty(FillsOf(emitted, id)) < submitted[id].quantity
        /\ Len(emitted) > canceled[id]
        /\ bar_count = MaxBars

(***************************************************************************)
(* C8: when the driver dispatches an Order with immediate_fill set while a *)
(* Market event is recorded, the order is registered and matched in that   *)
(* same step against the bar of the recorded Market event: its fill (a MKT *)
(* order always has one) carries that bar's time and is priced from that   *)
(* bar's open, and is on the bus when the Order's handling returns; and    *)
(* whenever the next bar is requested every emitted fill has been applied  *)
(* to the portfolio.                                                       *)
(***************************************************************************)
C8_Step ==
    /\ ImmediateStep =>
          LET o == submitted'[order_id']
              bar == latest_bars[o.symbol]
              fs == FillsOf(NewFills, order_id')
          IN /\ o.order_id = order_id'
             /\ bar.time = current_market_event.timeindex
             /\ latest_bars' = latest_bars
             /\ NewFills = fs
             /\ bus' = Tail(bus) \o fs
             /\ o.order_type = "MKT" =>
                   /\ Len(fs) = 1
                   /\ fs[1].timeindex = bar.time
                   /\ fs[1].fill_cost =
                          SlippedCost(bar.open, fs[1].quantity, o.direction)
                   /\ fs[1].quantity = Min(o.quantity, MaxFillQuantity(bar))
    /\ UpdateBarsStep =>
          \A k \in 1..Len(emitted) : k <= applied

C8_ImmediateFill == [][C8_Step]_vars

C8_Witness ==
    /\ last_fill.type = "FILL"
    /\ submitted[last_fill.order_id].immediate_fill
    /\ last_fill.quantity > 0
    /\ last_fill.timeindex = 2
    /\ bar_count = 2
    /\ pc = "advance"
    /\ current_positions[first_symbol] = 0
    /\ Len(closed_trades) = 1

(***************************************************************************)
(* C9: a LMT BUY matched against a bar produces a fill iff                 *)
(* bar.low <= limit, priced min(bar.open, limit) before slippage; a LMT    *)
(* SELL produces a fill iff bar.open >= limit (priced bar.open) or else    *)
(* bar.high >= limit (priced limit); otherwise no fill is emitted and the  *)
(* order stays resting as it was.                                          *)
(***************************************************************************)
C9_Step ==
    \A id \in MatchedIds :
        LET o == BeforeMatch(id)
            bar == latest_bars'[o.symbol]
            fs == FillsOf(NewFills, id)
            L == o.limit_price
        IN o.order_type = "LMT" =>
              /\ Len(fs) <= 1
              /\ o.direction = "BUY" =>
                    /\ (fs # <<>>) = (bar.low <= L)
                    /\ fs # <<>> =>
                          fs[1].fill_cost =
                              SlippedCost(IF bar.open <= L THEN bar.open ELSE L,
                                          fs[1].quantity, "BUY")
              /\ o.direction = "SELL" =>
                    /\ (fs # <<>>) = (bar.open >= L \/ bar.high >= L)
                    /\ fs # <<>> =>
                          fs[1].fill_cost =
                              SlippedCost(IF bar.open >= L THEN bar.open ELSE L,
                                          fs[1].quantity, "SELL")
              /\ fs = <<>> => id \in DOMAIN orders' /\ orders'[id] = o

C9_LimitRule == [][C9_Step]_vars

C9_Witness ==
    \E k \in 1..Len(emitted) :
        LET f == emitted[k]
            o == submitted[f.order_id]
            bar == latest_bars[o.symbol]
        IN /\ o.order_type = "LMT"
           /\ o.direction = "BUY"
           /\ f.timeindex = 2
           /\ bar.time = 2
           /\ bar.open > o.limit_price
           /\ f.quantity > 0
           /\ slippage_bps > 0
           /\ FillsOf(emitted, f.order_id) = <<f>>

(***************************************************************************)
(* C10: a STP BUY matched against a bar produces a fill iff                *)
(* bar.high >= stop, priced bar.open when open >= stop and bar.high when   *)
(* open < stop <= high; a STP SELL produces a fill iff bar.low <= stop,    *)
(* priced bar.open when open <= stop and bar.low otherwise; a stop that is *)
(* not triggered emits no fill and stays resting as it was.                *)
(***************************************************************************)
C10_Step ==
    \A id \in MatchedIds :
        LET o == BeforeMatch(id)
            bar == latest_bars'[o.symbol]
            fs == FillsOf(NewFills, id)
            S == o.stop_price
        IN o.order_type = "STP" =>
              /\ Len(fs) <= 1
              /\ o.direction = "BUY" =>
                    /\ (fs # <<>>) = (bar.high >= S)
                    /\ fs # <<>> =>
                          fs[1].fill_cost =
                              SlippedCost(IF bar.open >= S THEN bar.open
                                          ELSE bar.high, fs[1].quantity, "BUY")
              /\ o.direction = "SELL" =>
                    /\ (fs # <<>>) = (bar.low <= S)
                    /\ fs # <<>> =>
                          fs[1].fill_cost =
                              SlippedCost(IF bar.open <= S THEN bar.open
                                          ELSE bar.low, fs[1].quantity, "SELL")
              /\ fs = <<>> => id \in DOMAIN orders' /\ orders'[id] = o

C10_StopRule == [][C10_Step]_vars

C10_Witness ==
    \E k \in 1..Len(emitted) :
        LET f == emitted[k]
            o == submitted[f.order_id]
            bar == latest_bars[o.symbol]
        IN /\ o.order_type = "STP"
           /\ o.direction = "BUY"
           /\ f.timeindex = 2
           /\ bar.time = 2
           /\ bar.open < o.stop_price
           /\ bar.high > o.stop_price
           /\ f.quantity > 0
           /\ FillsOf(emitted, f.order_id) = <<f>>

(***************************************************************************)
(* C11: a STP_LMT order matched against a bar produces a fill iff on that  *)
(* bar its stop condition holds (high >= stop for BUY, low <= stop for     *)
(* SELL) and the LMT rule fills, priced as the LMT rule prices that bar;   *)
(* the bar leaves nothing on the order but the filled quantity, so every   *)
(* later bar is judged by its own stop condition again.                    *)
(***************************************************************************)
C11_Step ==
    \A id \in MatchedIds :
        LET o == BeforeMatch(id)
            bar == latest_bars'[o.symbol]
            fs == FillsOf(NewFills, id)
        IN o.order_type = "STP_LMT" =>
              /\ Len(fs) <= 1
              /\ (fs # <<>>) = (StopTriggered(o, bar) /\ LimitRuleFills(o, bar))
              /\ fs # <<>> =>
                    fs[1].fill_cost =
                        SlippedCost(LimitRulePrice(o, bar), fs[1].quantity,
                                    o.direction)
              /\ id \in DOMAIN orders' =>
                    orders'[id] = [o EXCEPT !.filled_quantity = @ + SumQty(fs)]

C11_StopLimitRule == [][C11_Step]_vars

C11_Witness ==
    \E id \in DOMAIN orders :
        LET o == orders[id]
            bar == latest_bars[o.symbol]
        IN /\ o.order_type = "STP_LMT"
           /\ o.direction = "BUY"
           /\ bar_count = 2
           /\ o.filled_quantity = 1
           /\ Len(emitted) = 1
           /\ emitted[1].timeindex = 1
           /\ bar.low <= o.limit_price
           /\ bar.high < o.stop_price

(***************************************************************************)
(* C12: a TRAIL BUY matched against a bar has the trigger                  *)
(* highest_seen - trail_offset, highest_seen being the highest high of the *)
(* bars so far, this bar included; it fills iff bar.low <= trigger, priced *)
(* min(bar.open, trigger) before slippage.  A TRAIL SELL has the trigger   *)
(* lowest_seen + trail_offset, lowest_seen including this bar's low; it    *)
(* fills iff bar.high >= trigger, priced max(bar.open, trigger).           *)
(***************************************************************************)
C12_Step ==
    \A id \in MatchedIds :
        LET o == BeforeMatch(id)
            bar == latest_bars'[o.symbol]
            fs == FillsOf(NewFills, id)
            highest_seen == Max(o.highest_price_seen, bar.high)
            lowest_seen == Min(o.lowest_price_seen, bar.low)
        IN o.order_type = "TRAIL" =>
              /\ Len(fs) <= 1
              /\ o.direction = "BUY" =>
                    LET trigger == highest_seen - o.trail_price
                    IN /\ (fs # <<>>) = (bar.low <= trigger)
                       /\ fs # <<>> =>
                             fs[1].fill_cost =
                                 SlippedCost(Min(bar.open, trigger),
                                             fs[1].quantity, "BUY")
              /\ o.direction = "SELL" =>
                    LET trigger == lowest_seen + o.trail_price
                    IN /\ (fs # <<>>) = (bar.high >= trigger)
                       /\ fs # <<>> =>
                             fs[1].fill_cost =
                                 SlippedCost(Max(bar.open, trigger),
                                             fs[1].quantity, "SELL")

C13_Step ==
    \A id \in DOMAIN orders' :
        LET o == BeforeMatch(id)
            n == orders'[id]
            bar == latest_bars'[o.symbol]
        IN o.order_type = "TRAIL" =>
              /\ n.highest_price_seen >= o.highest_price_seen
              /\ n.lowest_price_seen <= o.lowest_price_seen
              /\ n.trail_price = o.trail_price
              /\ n.highest_price_seen - n.trail_price
                     >= o.highest_price_seen - o.trail_price
              /\ n.lowest_price_seen + n.trail_price
                     <= o.lowest_price_seen + o.trail_price
              /\ id \in MatchedIds =>
                    /\ n.highest_price_seen >= bar.high
                    /\ n.lowest_price_seen <= bar.low

C13_ExtremaMonotone == [][C13_Step]_vars

C13_Witness ==
    \E id \in DOMAIN orders :
        LET o == orders[id]
            bar == latest_bars[o.symbol]
        IN /\ o.order_type = "TRAIL"
           /\ o.immediate_fill
           /\ o.filled_quantity >= 1
           /\ bar_count = 3
           /\ o.highest_price_seen > bar.high
           /\ o.lowest_price_seen < bar.low
           /\ Len(FillsOf(emitted, id)) >= 2

(***************************************************************************)
(* C14: a fill opposite to the open lot with quantity q <= lot quantity L  *)
(* appends exactly one closed trade with quantity q, the lot's direction,  *)
(* entry price and entry time, exit price = fill price and                 *)
(* pnl = (exit - entry) * q for a LONG lot, (entry - exit) * q for a SHORT *)
(* lot, minus entry_commission * q / L, minus the fill's commission; the   *)
(* lot's quantity and entry commission are reduced by the closed share,    *)
(* its entry price and time stay, and the lot is deleted iff q = L.        *)
(***************************************************************************)
C14_Step ==
    FillStep /\ FillOpposes /\ last_fill'.quantity <= LotBefore.quantity =>
        LET f == last_fill'
            lot == LotBefore
            q == f.quantity
            share == RDiv(RMul(lot.total_entry_commission, R(q)),
                          R(lot.quantity))
            t == LastTrade(closed_trades')
            gross == IF lot.direction = "LONG"
                     THEN RMul(RSub(FillPrice, lot.entry_price), R(q))
                     ELSE RMul(RSub(lot.entry_price, FillPrice), R(q))
        IN /\ OneTradeAppended
           /\ t.symbol = f.symbol
           /\ t.quantity = q
           /\ t.direction = lot.direction
           /\ t.entry_price = lot.entry_price
           /\ t.entry_time = lot.entry_time
           /\ t.exit_price = FillPrice
           /\ t.exit_time = f.timeindex
           /\ t.pnl = RSub(RSub(gross, share), f.commission)
           /\ HasLot(open_positions_details', f.symbol) <=> q # lot.quantity
           /\ q # lot.quantity =>
                 LotAfter = [lot EXCEPT
                                !.quantity = @ - q,
                                !.total_entry_commission = RSub(@, share)]

C14_CloseWithinLot == [][C14_Step]_vars

C14_Witness ==
    /\ closed_trades # <<>>
    /\ last_fill.type = "FILL"
    /\ LET t == LastTrade(closed_trades)
           lot == open_positions_details[last_fill.symbol]
       IN /\ t.exit_time = last_fill.timeindex
          /\ t.direction = "SHORT"
          /\ t.quantity = 1
          /\ lot.direction = "SHORT"
          /\ lot.quantity = 1
          /\ lot.entry_time = t.entry_time
          /\ ~RIsZero(lot.total_entry_commission)
          /\ ~RIsZero(last_fill.commission)
          /\ t.exit_price # t.entry_price

(***************************************************************************)
(* C15: a fill opposite to the open lot with quantity q > lot quantity L   *)
(* (a reversal) appends exactly one closed trade of quantity L in the old  *)
(* lot's direction and leaves one open lot in the opposite direction with  *)
(* quantity q - L, entry price = fill price and entry time = fill time;    *)
(* the position becomes the signed quantity of that lot.  A lot of        *)
(* quantity 0, opened by the engine's fill of quantity 0 on a bar without  *)
(* volume, makes the closing branch divide by zero: the fill moves the     *)
(* position and the cash, but no trade is closed and the lot stays.        *)
(***************************************************************************)
C15_Step ==
    FillStep /\ FillOpposes /\ last_fill'.quantity > LotBefore.quantity =>
        LET f == last_fill'
            lot == LotBefore
            t == LastTrade(closed_trades')
            n == LotAfter
        IN /\ OneTradeAppended
           /\ t.symbol = f.symbol
           /\ t.quantity = lot.quantity
           /\ t.direction = lot.direction
           /\ t.entry_price = lot.entry_price
           /\ t.exit_price = FillPrice
           /\ HasLot(open_positions_details', f.symbol)
           /\ n.direction = (IF lot.direction = "LONG" THEN "SHORT" ELSE "LONG")
           /\ n.quantity = f.quantity - lot.quantity
           /\ n.entry_price = FillPrice
           /\ n.entry_time = f.timeindex
           /\ current_positions'[f.symbol] =
                 (IF n.direction = "LONG" THEN n.quantity ELSE 0 - n.quantity)

C15_Reversal == [][C15_Step]_vars

(***************************************************************************)
(* C16: a fill in the direction of the open lot, or with no lot open,      *)
(* appends no closed trade and yields a lot of quantity old_qty + fill_qty *)
(* with entry price (old_price * old_qty + fill_price * fill_qty) /        *)
(* (old_qty + fill_qty) and entry commission old commission + the fill's   *)
(* commission; the entry time of an existing lot is unchanged, and a new   *)
(* lot takes the fill's price, time and commission.                        *)
(***************************************************************************)
C16_Step ==
    FillStep /\ ~FillOpposes =>
        LET f == last_fill'
            lot == LotBefore
            n == LotAfter
            q == f.quantity
            dir == IF f.direction = "BUY" THEN "LONG" ELSE "SHORT"
        IN /\ closed_trades' = closed_trades
           /\ n.direction = dir
           /\ IF HasLot(open_positions_details, f.symbol)
              THEN /\ lot.direction = dir
                   /\ n.quantity = lot.quantity + q
                   /\ n.entry_price =
                         RDiv(RAdd(RMul(lot.entry_price, R(lot.quantity)),
                                   RMul(FillPrice, R(q))),
                              R(lot.quantity + q))
                   /\ n.total_entry_commission =
                         RAdd(lot.total_entry_commission, f.commission)
                   /\ n.entry_time = lot.entry_time
              ELSE /\ n.quantity = q
                   /\ n.entry_price = FillPrice
                   /\ n.total_entry_commission = f.commission
                   /\ n.entry_time = f.timeindex

C16_AddToLot == [][C16_Step]_vars

C16_Witness ==
    /\ last_fill.type = "FILL"
    /\ closed_trades = <<>>
    /\ LET lot == open_positions_details[last_fill.symbol]
       IN /\ lot.direction = "SHORT"
          /\ lot.quantity = 3
          /\ lot.entry_price = Rat(5, 3)
          /\ lot.entry_time = 1
          /\ last_fill.timeindex = 2
          /\ lot.total_entry_commission = R(4)

(***************************************************************************)
(* C17: handling one Signal puts at most one Order on the bus; a LONG or   *)
(* SHORT signal (plain or MKT_IMMEDIATE) produces one only when the        *)
(* position is 0, an EXIT signal only when it is not 0, then with the      *)
(* direction opposite to the position and the quantity |position|; a       *)
(* signal sized to a quantity <= 0 produces none; and the portfolio state  *)
(* is the same after the Signal as before, the bus having lost the Signal  *)
(* and nothing else.                                                       *)
(***************************************************************************)
C17_Step ==
    SignalStep =>
        LET sig == Head(bus)
            pos == current_positions[sig.symbol]
            sized == CalculateQuantity(sig.symbol, sig.sizing_type,
                                       sig.sizing_value)
            o == Produced
        IN /\ UNCHANGED <<ledgerVars, historyVars, engineVars>>
           /\ IF OrderProduced
              THEN /\ bus' = Append(Tail(bus), o)
                   /\ o.type = "ORDER"
                   /\ o.symbol = sig.symbol
                   /\ sized > 0
                   /\ sig.signal_type \in {"LONG", "MKT_IMMEDIATE_LONG"} =>
                         pos = 0 /\ o.direction = "BUY" /\ o.quantity = sized
                   /\ sig.signal_type \in {"SHORT", "MKT_IMMEDIATE_SHORT"} =>
                         pos = 0 /\ o.direction = "SELL" /\ o.quantity = sized
                   /\ sig.signal_type \in {"EXIT", "MKT_IMMEDIATE_EXIT_LONG",
                                            "MKT_IMMEDIATE_EXIT_SHORT"} =>
                         /\ pos # 0
                         /\ o.direction = (IF pos > 0 THEN "SELL" ELSE "BUY")
                         /\ o.quantity = Abs(pos)
              ELSE bus' = Tail(bus)

TotalEquity ==
    RAdd(current_holdings.cash,
         SumValues(symbol_list,
                   [s \in symbol_list |->
                       RMul(R(current_positions[s]), R(latest_bars[s].close))]))

SizedAsClaimed(sig) ==
    LET close == latest_bars[sig.symbol].close
    IN IF sig.sizing_type = "PERCENT_EQUITY"
       THEN IntOf(RDiv(RMul(TotalEquity, sig.sizing_value), R(close)))
       ELSE IF sig.sizing_type = "FIXED_SHARES" THEN IntOf(sig.sizing_value)
       ELSE IF sig.sizing_type = "FIXED_CAPITAL"
       THEN IntOf(RDiv(sig.sizing_value, R(close)))
       ELSE 100

C18_Step ==
    SignalStep /\ Head(bus).signal_type \in {"LONG", "SHORT"}
               /\ current_positions[Head(bus).symbol] = 0 =>
        /\ OrderProduced <=> SizedAsClaimed(Head(bus)) > 0
        /\ OrderProduced => Produced.quantity = SizedAsClaimed(Head(bus))

C18_Sizing == [][C18_Step]_vars

(***************************************************************************)
(* C19: the Order generated from a Signal carries the Signal's order_type, *)
(* its limit, stop and trail prices and its immediate_fill flag.  The code *)
(* always generates a MKT order without prices, and sets immediate_fill    *)
(* from the signal_type alone.                                             *)
(***************************************************************************)
C19_Step ==
    SignalStep /\ OrderProduced =>
        /\ Produced.order_type = Head(bus).order_type
        /\ Produced.limit_price = Head(bus).limit_price
        /\ Produced.stop_price = Head(bus).stop_price
        /\ Produced.trail_price = Head(bus).trail_price
        /\ Head(bus).immediate_fill => Produced.immediate_fill

C19_OrderCarriesSignal == [][C19_Step]_vars

(***************************************************************************)
(* C20: every Market event the driver dispatches appends exactly one       *)
(* position snapshot and exactly one holdings snapshot, and no other step  *)
(* touches the histories; so after n Market events both histories have     *)
(* n + 1 records.                                                          *)
(***************************************************************************)
MarketsDispatched ==
    IF current_market_event = NoEvent THEN 0
    ELSE current_market_event.timeindex

C20_Count ==
    /\ Len(all_positions) = MarketsDispatched + 1
    /\ Len(all_holdings) = MarketsDispatched + 1

C20_Step ==
    /\ MarketStep =>
          /\ MarketsDispatched' = MarketsDispatched + 1
          /\ Len(all_positions') = Len(all_positions) + 1
          /\ SubSeq(all_positions', 1, Len(all_positions)) = all_positions
          /\ Len(all_holdings') = Len(all_holdings) + 1
          /\ SubSeq(all_holdings', 1, Len(all_holdings)) = all_holdings
    /\ ~MarketStep => UNCHANGED historyVars
    /\ C20_Count'

FillsBefore(t) == SelectSeq(emitted, LAMBDA f : f.timeindex < t)

C21_AsOf(h, p) ==
    /\ h.cash = HoldingsAfter(all_holdings[1], FillsBefore(h.datetime)).cash
    /\ h.commission =
          HoldingsAfter(all_holdings[1], FillsBefore(h.datetime)).commission
    /\ p.datetime = h.datetime
    /\ p.positions =
          PositionsAfter(all_positions[1].positions, FillsBefore(h.datetime))
    /\ latest_bars[first_symbol].time = h.datetime =>
          h.total =
              RAdd(h.cash,
                   SumValues(symbol_list,
                             [s \in symbol_list |->
                                 RMul(R(p.positions[s]),
                                      R(latest_bars[s].close))]))

C21_SnapshotBeforeFills ==
    /\ \A k \in 2..Len(all_holdings) : C21_AsOf(all_holdings[k], all_positions[k])
    /\ applied = 0 =>
          \A k \in 1..Len(all_holdings) : all_holdings[k].total = initial_capital

C21_Witness ==
    /\ Len(all_holdings) >= 3
    /\ applied = Len(emitted)
    /\ all_holdings[Len(all_holdings)].datetime = bar_count
    /\ all_holdings[Len(all_holdings)].cash # initial_capital
    /\ all_holdings[Len(all_holdings)].cash # current_holdings.cash
    /\ all_holdings[Len(all_holdings)].total # initial_capital
    /\ \E k \in 1..Len(emitted) :
          /\ emitted[k].timeindex = bar_count
          /\ emitted[k].quantity > 0
          /\ ~submitted[emitted[k].order_id].immediate_fill
    /\ \E k \in 1..Len(emitted) :
          /\ emitted[k].timeindex = bar_count
          /\ emitted[k].quantity > 0
          /\ submitted[emitted[k].order_id].immediate_fill

(***************************************************************************)
(* C22: when the handling of a dequeued event raises, the error is logged  *)
(* and the driver stays in its inner loop with the events that were behind *)
(* the failed one still on the bus in their order, and the bar source      *)
(* untouched; and the driver leaves the outer loop only when the bar       *)
(* source is exhausted and the bus is empty.                               *)
(***************************************************************************)
ErrorStep == Len(error_log') = Len(error_log) + 1

C22_Step ==
    /\ ErrorStep =>
          /\ pc = "drain" /\ pc' = "drain"
          /\ HandlingRaises(Head(bus))
          /\ error_log'[Len(error_log')].type = Head(bus).type
          /\ SubSeq(bus', 1, Len(bus) - 1) = Tail(bus)
          /\ UNCHANGED dataVars
    /\ pc = "drain" /\ bus # <<>> /\ HandlingRaises(Head(bus)) => ErrorStep
    /\ pc' = "halted" => ~continue_backtest' /\ bus' = <<>>

C22_ErrorsDoNotHalt == [][C22_Step]_vars

C22_Witness ==
    /\ pc = "halted"
    /\ error_log # <<>>
    /\ error_log[1].type = "FILL"
    /\ error_log[1].bar = 2
    /\ bar_count = 3
    /\ last_fill.timeindex = 3
    /\ last_fill.quantity > 0
    /\ Len(all_holdings) = 4
    /\ order_id >= 2

(***************************************************************************)
(* C23: an order that lacks a field its type needs (a LMT or STP_LMT order *)
(* without limit price, a STP or STP_LMT order without stop price, a TRAIL *)
(* order without trail offset) is rejected at submission: it is never in   *)
(* the resting set, and so every complete order is matched on every bar as *)
(* if the incomplete one had not been submitted.  execute_order stores     *)
(* every order it is handed; the incomplete order rests, and on each later *)
(* bar its comparison with the absent price raises TypeError in update,    *)
(* which ends the pass before the orders submitted after it are matched.   *)
(***************************************************************************)
HasItsPrices(o) ==
    /\ o.order_type \in {"LMT", "STP_LMT"} => o.limit_price # None
    /\ o.order_type \in {"STP", "STP_LMT"} => o.stop_price # None
    /\ o.order_type = "TRAIL" => o.trail_price # None

C23_Step ==
    /\ \A id \in DOMAIN orders' : HasItsPrices(orders'[id])
    /\ MarketStep =>
          \A id \in DOMAIN orders :
              HasItsPrices(orders[id]) /\ orders[id].order_type = "MKT" =>
                  FillsOf(NewFills, id) # <<>>

C23_IncompleteRejected == [][C23_Step]_vars

(***************************************************************************)
(* C24: a get on an empty event bus comes back at once with the Empty      *)
(* outcome and leaves the bus as it was.  EventBus.get calls Queue.get()   *)
(* with its defaults, which waits on an empty queue for an item nobody     *)
(* will put; and the driver's call get(False) passes an argument the       *)
(* method does not take, which raises TypeError, not queue.Empty.          *)
(***************************************************************************)
GetStep == Len(get_results') = Len(get_results) + 1

C24_Step ==
    GetStep /\ EventBusEmpty(bus) =>
        /\ get_results'[Len(get_results')].outcome = "Empty"
        /\ bus' = bus

C24_GetOnEmptyReturns == [][C24_Step]_vars

(***************************************************************************)
(* C25: whatever the interleaving of put and get calls and the types of    *)
(* the events, the events the gets have returned, followed by the events   *)
(* still queued, are the events put, in the order of the puts: each is     *)
(* returned once, in its turn, none is moved forward or merged; and        *)
(* empty() is true iff as many events have been returned as were put.      *)
(***************************************************************************)
Returned == SelectSeq(get_results, LAMBDA r : r.outcome = "Event")

Dequeued == [k \in 1..Len(Returned) |-> Returned[k].event]

C25_Fifo ==
    /\ Dequeued \o bus = enqueued
    /\ EventBusEmpty(bus) <=> Len(Dequeued) = Len(enqueued)

C25_Witness ==
    /\ Len(enqueued) = 3
    /\ enqueued[1].type = "FILL"
    /\ enqueued[2].type = "MARKET"
    /\ enqueued[3].type = "MARKET"
    /\ Len(get_results) = 3
    /\ get_results[1].outcome = "Event"
    /\ get_results[2].outcome = "TypeError"
    /\ get_results[3].outcome = "Event"
    /\ Len(bus) = 1
    /\ ~EventBusEmpty(bus)

(***************************************************************************)
(* C26: an Order handled by execute_order gets the id that is one more     *)
(* than the id given last (the first gets 1) and is stored under it; so    *)
(* the ids given so far are 1..order_id, each given once, also after the   *)
(* order of an id was filled or canceled; and no other step, the handling  *)
(* of a CancelOrder included, moves the id counter.                        *)
(***************************************************************************)
SubmitStep == submitted' # submitted \/ order_id' # order_id

C26_Ids ==
    /\ DOMAIN submitted = 1..order_id
    /\ DOMAIN orders \subseteq 1..order_id
    /\ \A id \in DOMAIN orders : orders[id].order_id = id

C26_Step ==
    /\ SubmitStep =>
          /\ order_id' = order_id + 1
          /\ order_id' \notin DOMAIN submitted
          /\ submitted'[order_id'].order_id = order_id'
          /\ \A id \in DOMAIN submitted : submitted'[id] = submitted[id]
          /\ order_id = 0 => order_id' = 1
    /\ C26_Ids'

C26_IdsIncrease == [][C26_Step]_vars

C26_Witness ==
    /\ order_id = 2
    /\ Len(emitted) >= 2
    /\ emitted[1].order_id = 1
    /\ ~emitted[1].partial_fill
    /\ submitted[1].immediate_fill
    /\ emitted[2].order_id = 2
    /\ submitted[2].immediate_fill
    /\ submitted[2].order_type = "MKT"
    /\ DOMAIN canceled = {1}
    /\ canceled[1] = 1

(***************************************************************************)
(* C27: a CancelOrder for an id that is not resting (never given, already  *)
(* filled, already canceled) leaves the resting set as it is, and its      *)
(* handling leaves the id counter, the bus and the emitted fills alone; a  *)
(* CancelOrder for a resting id removes that order and no other; and a     *)
(* second CancelOrder for the same id changes nothing more.                *)
(***************************************************************************)
CancelIds == 0..(MaxOrders + 1)

C27_Cancel(ords, id) ==
    /\ id \notin DOMAIN ords =>
          ExecuteCancel(ords, CancelOrderEvent(id)) = ords
    /\ ExecuteCancel(ords, CancelOrderEvent(id)) = Del(ords, id)
    /\ ExecuteCancel(ExecuteCancel(ords, CancelOrderEvent(id)),
                     CancelOrderEvent(id))
          = ExecuteCancel(ords, CancelOrderEvent(id))

C27_Step ==
    /\ \A id \in CancelIds : C27_Cancel(orders', id)
    /\ canceled' # canceled =>
          /\ UNCHANGED <<order_id, bus, emitted, submitted>>
          /\ \A id \in DOMAIN canceled' \ DOMAIN canceled :
                /\ orders' = Del(orders, id)
                /\ id \notin DOMAIN orders => orders' = orders

C27_CancelIdempotent == [][C27_Step]_vars

C27_Witness ==
    \E id \in DOMAIN canceled :
        /\ SumQty(FillsOf(emitted, id)) = submitted[id].quantity
        /\ canceled[id] = Len(emitted)
        /\ submitted[id].quantity = 3
        /\ DOMAIN orders = {1, 2} \ {id}
        /\ bar_count = MaxBars

(***************************************************************************)
(* C28: on a finite bar sequence, with a strategy that puts finitely many  *)
(* events per Market event, the run ends halted with an empty bus.  Each   *)
(* call of update_bars that finds a bar puts exactly one Market event on   *)
(* the bus; the call that finds the source exhausted clears                *)
(* continue_backtest and puts none; the inner loop then finds the bus      *)
(* empty, and the next iteration of the outer loop leaves it.              *)
(***************************************************************************)
C28_Step ==
    /\ UpdateBarsStep /\ bar_count' # bar_count =>
          /\ bus' = Append(bus, MarketEvent(bar_count'))
          /\ MarketCount(bus') = MarketCount(bus) + 1
          /\ continue_backtest'
    /\ UpdateBarsStep /\ bar_count' = bar_count =>
          /\ ~continue_backtest'
          /\ bus' = bus
    /\ pc = "advance" /\ ~continue_backtest => pc' = "halted"
    /\ pc' = "halted" =>
          /\ ~continue_backtest'
          /\ bus' = <<>>
          /\ UNCHANGED <<bus, bar_count, ledgerVars, historyVars, engineVars>>

RulePrice(o, bar) ==
    IF o.order_type = "MKT" THEN bar.open
    ELSE IF o.order_type \in {"LMT", "STP_LMT"} THEN LimitRulePrice(o, bar)
    ELSE IF o.order_type = "STP"
    THEN (IF o.direction = "BUY"
          THEN (IF bar.open >= o.stop_price THEN bar.open ELSE bar.high)
          ELSE (IF bar.open <= o.stop_price THEN bar.open ELSE bar.low))
    ELSE (IF o.direction = "BUY"
          THEN Min(bar.open,
                   Max(o.highest_price_seen, bar.high) - o.trail_price)
          ELSE Max(bar.open,
                   Min(o.lowest_price_seen, bar.low) + o.trail_price))

C30_Priced(f, o, bar) ==
    /\ f.direction = o.direction
    /\ f.direction = "BUY" =>
          f.fill_cost = RMul(R(f.quantity),
                             RMul(R(RulePrice(o, bar)),
                                  RAdd(R(1), Rat(slippage_bps, 10000))))
    /\ f.direction = "SELL" =>
          f.fill_cost = RMul(R(f.quantity),
                             RMul(R(RulePrice(o, bar)),
                                  RSub(R(1), Rat(slippage_bps, 10000))))
    /\ slippage_bps = 0 =>
          f.fill_cost = RMul(R(f.quantity), R(RulePrice(o, bar)))

C30_Step ==
    \A k \in 1..Len(NewFills) :
        /\ NewFills[k].order_id \in MatchedIds
        /\ C30_Priced(NewFills[k], BeforeMatch(NewFills[k].order_id),
                      latest_bars'[NewFills[k].symbol])

C30_Slippage == [][C30_Step]_vars

C30_Witness ==
    /\ slippage_bps > 0
    /\ Len(emitted) = 2
    /\ emitted[1].direction = "SELL"
    /\ emitted[1].quantity = 1
    /\ emitted[2].quantity = 1
    /\ submitted[1].order_type = "TRAIL"
    /\ RLt(emitted[1].fill_cost, emitted[2].fill_cost)
    /\ emitted[2].fill_cost = Rat(297, 100)

(***************************************************************************)
(* C31: on a Market event the driver records the event, then notifies the  *)
(* matching engine, then the portfolio, then the strategy, so that the     *)
(* strategy, when it runs for bar t, finds the snapshot of bar t appended. *)
(* The driver calls update, then calculate_signals, then update_timeindex: *)
(* the strategy runs for bar t with the series ending at the snapshot of   *)
(* the bar before.                                                         *)
(***************************************************************************)
C31_Step ==
    MarketStep =>
        /\ current_market_event' = Head(bus)
        /\ strategy_view' # strategy_view =>
              /\ strategy_view'.timeindex = current_market_event'.timeindex
              /\ strategy_view'.snapshots = Len(all_holdings')
              /\ all_holdings'[strategy_view'.snapshots].datetime =
                    strategy_view'.timeindex

C31_SnapshotBeforeStrategy == [][C31_Step]_vars

(***************************************************************************)
(* C32: a resting order whose fill condition is not met on the bar it is   *)
(* matched against stays in the resting set and no fill is put on the bus  *)
(* for it; its quantity, filled quantity, prices, direction, symbol, type  *)
(* and id are as before; a TRAIL order has its extrema moved to include    *)
(* the bar, and an order of any other type keeps its extrema too.          *)
(***************************************************************************)
\* the fill condition of an order o on a bar, by the order's type
RuleMet(o, bar) ==
    IF o.order_type = "MKT" THEN TRUE
    ELSE IF o.order_type = "LMT" THEN LimitRuleFills(o, bar)
    ELSE IF o.order_type = "STP" THEN StopTriggered(o, bar)
    ELSE IF o.order_type = "STP_LMT"
    THEN StopTriggered(o, bar) /\ LimitRuleFills(o, bar)
    ELSE (IF o.direction = "BUY"
          THEN bar.low <= Max(o.highest_price_seen, bar.high) - o.trail_price
          ELSE bar.high >= Min(o.lowest_price_seen, bar.low) + o.trail_price)

C32_Step ==
    \A id \in MatchedIds :
        LET o == BeforeMatch(id)
            bar == latest_bars'[o.symbol]
        IN o.quantity > o.filled_quantity /\ ~RuleMet(o, bar) =>
              /\ FillsOf(NewFills, id) = <<>>
              /\ id \in DOMAIN orders'
              /\ \A f \in {"symbol", "order_type", "quantity", "direction",
                           "limit_price", "stop_price", "trail_price",
                           "immediate_fill", "filled_quantity", "order_id"} :
                    orders'[id][f] = o[f]
              /\ o.order_type # "TRAIL" => orders'[id] = o
              /\ o.order_type = "TRAIL" =>
                    orders'[id] =
                        [o EXCEPT !.highest_price_seen = Max(@, bar.high),
                                  !.lowest_price_seen = Min(@, bar.low)]

C32_UnfilledUnchanged == [][C32_Step]_vars

C32_Witness ==
    /\ bar_count = 2
    /\ DOMAIN orders = {1}
    /\ orders[1].order_type = "TRAIL"
    /\ orders[1].direction = "SELL"
    /\ orders[1].filled_quantity = 1
    /\ orders[1].highest_price_seen = 3
    /\ orders[1].lowest_price_seen = 1
    /\ Len(emitted) = 1
    /\ emitted[1].timeindex = 1
    /\ ~RuleMet(submitted[1], latest_bars[first_symbol])

(***************************************************************************)
(* C33: on a reversal fill (quantity q opposite to an open lot of quantity *)
(* L, q > L >= 1) the new lot records the entry commission                 *)
(* commission * (q - L) / q, and the exit commission charged to the closed *)
(* trade plus that entry commission is the fill's commission.  The closed  *)
(* trade is charged the fill's whole commission as its exit commission,    *)
(* so the two add up to commission * (2q - L) / q.                         *)
(***************************************************************************)
\* the exit commission in the closed trade t of a lot closed in full
ExitCommission(t, lot) == RSub(t.commission, lot.total_entry_commission)

C33_Step ==
    /\ FillStep /\ FillOpposes
    /\ LotBefore.quantity >= 1
    /\ last_fill'.quantity > LotBefore.quantity
    => /\ OneTradeAppended
       /\ LotAfter.total_entry_commission =
             RMul(last_fill'.commission,
                  Rat(last_fill'.quantity - LotBefore.quantity,
                      last_fill'.quantity))
       /\ RAdd(ExitCommission(LastTrade(closed_trades'), LotBefore),
               LotAfter.total_entry_commission) = last_fill'.commission

C33_CommissionSplit == [][C33_Step]_vars

(***************************************************************************)
(* C34: the liquidity cap floor(volume * participation_pct) of a bar is    *)
(* applied to each order on its own: every order whose condition is met    *)
(* on the bar, in the resting-order pass or in an immediate pass, is       *)
(* filled min(its remaining quantity, cap) whatever the other orders of    *)
(* the bar are filled; the quantity filled on one bar over all orders may  *)
(* therefore exceed the cap.                                               *)
(***************************************************************************)
C34_Step ==
    \A id \in MatchedIds :
        LET o == BeforeMatch(id)
            bar == latest_bars'[o.symbol]
        IN o.quantity > o.filled_quantity /\ RuleMet(o, bar) =>
              /\ Len(FillsOf(NewFills, id)) = 1
              /\ FillsOf(NewFills, id)[1].quantity =
                    Min(o.quantity - o.filled_quantity, MaxFillQuantity(bar))

C34_CapPerOrder == [][C34_Step]_vars

\* two resting orders filled on the latest bar, each up to the cap, together
\* beyond it
C34_Witness ==
    /\ Len(emitted) = 2
    /\ emitted[1].order_id = 1 /\ emitted[2].order_id = 2
    /\ emitted[1].timeindex = bar_count /\ emitted[2].timeindex = bar_count
    /\ ~submitted[1].immediate_fill /\ ~submitted[2].immediate_fill
    /\ MaxFillQuantity(latest_bars[first_symbol]) = 2
    /\ emitted[1].quantity = 2 /\ emitted[2].quantity = 2
    /\ emitted[1].partial_fill /\ emitted[2].partial_fill
    /\ emitted[1].quantity + emitted[2].quantity
          > MaxFillQuantity(latest_bars[first_symbol])
    /\ DOMAIN orders = {1, 2}

(***************************************************************************)
(* C35: every fill the engine emits has quantity >= 1, so the portfolio    *)
(* is never handed a fill of quantity 0 and never holds a lot of quantity  *)
(* 0; on a bar whose cap floor(volume * participation_pct) is 0 an order   *)
(* whose condition is met stays resting and no fill is emitted for it.     *)
(* The rules build a FillEvent of quantity min(remaining, 0) = 0 on such a *)
(* bar, update puts it on the bus (a FillEvent object is always true), and *)
(* update_fill opens a lot of quantity 0 from it.                          *)
(***************************************************************************)
C35_Step ==
    \A id \in MatchedIds :
        MaxFillQuantity(latest_bars'[BeforeMatch(id).symbol]) = 0 =>
            /\ FillsOf(NewFills, id) = <<>>
            /\ BeforeMatch(id).quantity > BeforeMatch(id).filled_quantity =>
                  id \in DOMAIN orders'

C35_State ==
    /\ \A k \in 1..Len(emitted) : emitted[k].quantity >= 1
    /\ last_fill # NoFill => last_fill.quantity >= 1
    /\ \A s \in symbol_list :
          HasLot(open_positions_details, s) =>
              open_positions_details[s].quantity >= 1

C35_FillsAtLeastOne == [][C35_Step /\ C35_State']_vars

(***************************************************************************)
(* C36: no order has two fills for the same bar.  A step emits at most one *)
(* fill per order and only for the orders it matches: the resting orders   *)
(* on a Market event, the registered order alone in an immediate pass;     *)
(* every fill carries the time of the bar it was matched against; and an   *)
(* order filled in whole or in part by the immediate pass on bar t gets    *)
(* its next fill, if any, from a later bar.                                *)
(***************************************************************************)
C36_OnePerBar ==
    \A i \in 1..Len(emitted), j \in 1..Len(emitted) :
        i < j /\ emitted[i].order_id = emitted[j].order_id =>
            emitted[i].timeindex < emitted[j].timeindex

C36_Step ==
    /\ \A k \in 1..Len(NewFills) :
          /\ NewFills[k].order_id \in MatchedIds
          /\ NewFills[k].timeindex = bar_count'
          /\ Len(FillsOf(NewFills, NewFills[k].order_id)) = 1
    /\ NewFills # <<>> /\ ~MarketStep =>
          /\ Len(NewFills) = 1
          /\ FillsOf(emitted, order_id') = <<>>
    /\ C36_OnePerBar'

C36_OneFillPerBar == [][C36_Step]_vars

\* an immediate order filled in part on the bar of its submission and again on
\* the next bar
C36_Witness ==
    /\ order_id >= 1
    /\ submitted[1].immediate_fill
    /\ Len(FillsOf(emitted, 1)) = 2
    /\ FillsOf(emitted, 1)[1].timeindex = 1
    /\ FillsOf(emitted, 1)[1].partial_fill
    /\ FillsOf(emitted, 1)[1].quantity = 1
    /\ FillsOf(emitted, 1)[2].timeindex = 2
    /\ FillsOf(emitted, 1)[2].quantity = 1

(***************************************************************************)
(* C37: an order without immediate_fill produced in the cascade of bar t   *)
(* is registered after the Market event of bar t was handled, and no fill  *)
(* is emitted at its registration; each of its fills is emitted by the     *)
(* resting-order pass of a later Market event, carries the time of that    *)
(* bar (t + 1 at the earliest) and is priced from that bar; an order       *)
(* registered on the last bar is never filled.                             *)
(***************************************************************************)
C37_Step ==
    /\ SubmitStep /\ ~submitted'[order_id'].immediate_fill =>
          /\ current_market_event # NoEvent
          /\ current_market_event.timeindex = bar_count
          /\ registered_at'[order_id'] = bar_count
          /\ NewFills = <<>>
          /\ order_id' \in DOMAIN orders'
    /\ \A k \in 1..Len(NewFills) :
          LET f == NewFills[k]
              o == submitted'[f.order_id]
          IN ~o.immediate_fill =>
                /\ MarketStep
                /\ f.order_id \in DOMAIN orders
                /\ f.timeindex = current_market_event'.timeindex
                /\ f.timeindex >= registered_at[f.order_id] + 1
                /\ latest_bars'[f.symbol].time = f.timeindex
                /\ f.fill_cost =
                      SlippedCost(RulePrice(orders[f.order_id],
                                            latest_bars'[f.symbol]),
                                  f.quantity, f.direction)

C37_Later ==
    \A id \in DOMAIN submitted :
        ~submitted[id].immediate_fill =>
            /\ \A k \in 1..Len(emitted) :
                  emitted[k].order_id = id =>
                      emitted[k].timeindex >= registered_at[id] + 1
            /\ pc = "halted" /\ registered_at[id] = bar_count =>
                  FillsOf(emitted, id) = <<>>

C37_NextBarAtEarliest == [][C37_Step /\ C37_Later']_vars

\* the run has ended; the order registered on bar 1 was filled on bar 2, from
\* the open of bar 2, and the order registered on the last bar rests unfilled
C37_Witness ==
    /\ pc = "halted"
    /\ bar_count = 3
    /\ order_id = 2
    /\ ~submitted[1].immediate_fill /\ ~submitted[2].immediate_fill
    /\ registered_at[1] = 1
    /\ Len(FillsOf(emitted, 1)) = 1
    /\ FillsOf(emitted, 1)[1].timeindex = 2
    /\ FillsOf(emitted, 1)[1].quantity = 2
    /\ registered_at[2] = 3
    /\ FillsOf(emitted, 2) = <<>>
    /\ 2 \in DOMAIN orders

(***************************************************************************)
(* C38: the fill of an order generated from an EXIT signal never carries   *)
(* the symbol's position through zero: after it is applied the position is *)
(* 0 or has the sign it had before.  generate_order sizes the order of an  *)
(* EXIT signal as abs(current position) without looking at the orders      *)
(* already resting: a second EXIT handled before the first EXIT order is   *)
(* filled in full produces a second closing order, and the fills of the    *)
(* two together exceed the position.                                       *)
(***************************************************************************)
\* the signal type that produced the order of the handled fill
FillOrigin ==
    IF last_fill'.order_id \in 1..Len(origin) THEN origin[last_fill'.order_id]
    ELSE "NONE"

Sign(n) == IF n > 0 THEN 1 ELSE IF n < 0 THEN -1 ELSE 0

C38_Step ==
    FillStep /\ FillOrigin = "EXIT" =>
        \/ current_positions'[last_fill'.symbol] = 0
        \/ Sign(current_positions'[last_fill'.symbol]) =
              Sign(current_positions[last_fill'.symbol])

C38_ExitNeverReverses == [][C38_Step]_vars

(***************************************************************************)
(* C39: for slippage_bps >= 0 the price per share of a fill of a LMT BUY   *)
(* is at most limit * (1 + bps/10000) and that of a LMT SELL at least      *)
(* limit * (1 - bps/10000); with slippage_bps = 0 a limit order is never   *)
(* filled at a price worse than its limit.                                 *)
(***************************************************************************)
\* limit price * quantity, moved by the slippage against the direction
LimitBound(o, quantity) == SlippedCost(o.limit_price, quantity, o.direction)

C39_Bounded(f, o) ==
    /\ o.direction = "BUY" =>
          /\ RLe(f.fill_cost, LimitBound(o, f.quantity))
          /\ f.quantity > 0 =>
                RLe(RDiv(f.fill_cost, R(f.quantity)), LimitBound(o, 1))
          /\ slippage_bps = 0 =>
                RLe(f.fill_cost, R(o.limit_price * f.quantity))
    /\ o.direction = "SELL" =>
          /\ RLe(LimitBound(o, f.quantity), f.fill_cost)
          /\ f.quantity > 0 =>
                RLe(LimitBound(o, 1), RDiv(f.fill_cost, R(f.quantity)))
          /\ slippage_bps = 0 =>
                RLe(R(o.limit_price * f.quantity), f.fill_cost)

C39_Step ==
    \A k \in 1..Len(NewFills) :
        BeforeMatch(NewFills[k].order_id).order_type = "LMT" =>
            C39_Bounded(NewFills[k], BeforeMatch(NewFills[k].order_id))

C39_LimitBoundsPrice == slippage_bps >= 0 /\ [][C39_Step]_vars

\* a LMT BUY filled on a bar that opened above its limit, at the limit plus
\* slippage, and a second time on a bar that opened below it, for less
C39_Witness ==
    /\ slippage_bps > 0
    /\ submitted[1].order_type = "LMT"
    /\ submitted[1].direction = "BUY"
    /\ Len(emitted) = 2
    /\ emitted[1].quantity = 1
    /\ emitted[1].fill_cost = LimitBound(submitted[1], 1)
    /\ emitted[2].quantity = 1
    /\ RLt(emitted[2].fill_cost, LimitBound(submitted[1], 1))
    /\ latest_bars[first_symbol].open < submitted[1].limit_price

(***************************************************************************)
(* C40: when the driver has halted after N bars, every fill emitted has    *)
(* been applied to the current positions and cash, the fills of bar N      *)
(* included; there are N + 1 snapshots, the initial one and one per bar;   *)
(* and the last snapshot is that of bar N, holding the cash and positions  *)
(* that result from exactly the fills generated before bar N, so the fills *)
(* generated on bar N are in no snapshot.                                  *)
(***************************************************************************)
\* the fills generated on the bar with time t
FillsOn(t) == SelectSeq(emitted, LAMBDA f : f.timeindex = t)

C40_LastSnapshot(h, p) ==
    /\ h.datetime = bar_count
    /\ p.datetime = bar_count
    /\ h.cash = HoldingsAfter(all_holdings[1], FillsBefore(bar_count)).cash
    /\ h.commission =
          HoldingsAfter(all_holdings[1], FillsBefore(bar_count)).commission
    /\ p.positions =
          PositionsAfter(all_positions[1].positions, FillsBefore(bar_count))

====
